---- MODULE Spec2Model ----
(***************************************************************************)
(* The cache engine of sauri: the Cache contract implemented by            *)
(* BadgerCache (embedded LSM store) and RedisCache (remote store).         *)
(*                                                                         *)
(* Strings are sequences of one-character strings, so that key layout      *)
(* (prefix ++ ":" ++ key), byte-prefix scans and wildcard matching are     *)
(* computed, not assumed.  Time is counted in whole seconds.               *)
(***************************************************************************)
EXTENDS Integers, Sequences, FiniteSets, TLC

VARIABLES
    backend,   \* which concrete backend the Cache handles are bound to
    store,     \* the backend store: namespaced key -> [val, exp]
    now,       \* the clock, in seconds
    last,      \* the last call made through a Cache handle, with its return
    timed,     \* history: namespaced key -> [by, at, d] of the Set or Expire with
               \* a duration that was the last successful write of the key
    run,       \* the remote-backend operation followed command by command:
               \* its position, the connections it holds, the keys it collected
    closed,    \* DBConn.Close has returned nil
    backup     \* what Backup wrote to its io.Writer (<<>>: nothing yet)

vars == <<backend, store, now, last, timed, run, closed, backup>>

(***************************************************************************)
(* Bounds of the model and scaled program constants.                       *)
(***************************************************************************)
\* The store holds at most this many entries at once.
MaxLive == 3

\* Empty/EmptyByMatch pass batchSize := 10000; the model scales the ceiling
\* down so that a key set larger than one batch fits in the store.
EmptyBatchSize == 2

\* Strings and patterns handed to the Wildcard Matcher have at most this length.
MaxStrLen == 3

\* maxRetries := 3 in Empty and EmptyByMatch.
MaxRetries == 3

\* KeysWithBatchSize: batchSize == 0 defaults to 1000.
DefaultBatchSize == 1000

(***************************************************************************)
(* Strings.                                                                *)
(***************************************************************************)
Chars == {"*", ":", "?", "a", "b", "p", "q"}

\* Byte value of a character (ASCII): the store iterates in byte order.
Ord(c) ==
    CASE c = "*" -> 42
      [] c = ":" -> 58
      [] c = "?" -> 63
      [] c = "a" -> 97
      [] c = "b" -> 98
      [] c = "p" -> 112
      [] c = "q" -> 113

\* bytes.Compare(s, t) < 0
RECURSIVE LexLess(_, _)
LexLess(s, t) ==
    IF t = <<>> THEN FALSE
    ELSE IF s = <<>> THEN TRUE
    ELSE IF Head(s) # Head(t) THEN Ord(Head(s)) < Ord(Head(t))
    ELSE LexLess(Tail(s), Tail(t))

\* strings.HasPrefix / bytes.HasPrefix
HasPrefix(s, p) ==
    /\ Len(p) <= Len(s)
    /\ SubSeq(s, 1, Len(p)) = p

\* strings.HasSuffix
HasSuffix(s, p) ==
    /\ Len(p) <= Len(s)
    /\ SubSeq(s, Len(s) - Len(p) + 1, Len(s)) = p

\* strings.Contains(s, "*")
ContainsStar(s) == \E n \in 1..Len(s) : s[n] = "*"

\* strings.TrimPrefix
TrimPrefix(s, p) == IF HasPrefix(s, p) THEN SubSeq(s, Len(p) + 1, Len(s)) ELSE s

\* strings.Split(s, "*"): the pieces between the stars, at least one piece.
RECURSIVE SplitStar(_)
SplitStar(s) ==
    IF ~ContainsStar(s) THEN <<s>>
    ELSE LET n == CHOOSE m \in 1..Len(s) :
                     /\ s[m] = "*"
                     /\ \A j \in 1..(m - 1) : s[j] # "*"
         IN  <<SubSeq(s, 1, n - 1)>> \o SplitStar(SubSeq(s, n + 1, Len(s)))

\* The keys of a set in byte order, as the store's iterator yields them.
RECURSIVE SortKeys(_)
SortKeys(S) ==
    IF S = {} THEN <<>>
    ELSE LET m == CHOOSE x \in S : \A y \in S \ {x} : LexLess(x, y)
         IN  <<m>> \o SortKeys(S \ {m})

\* The elements of a sequence.
Range(s) == {s[n] : n \in 1..Len(s)}

(***************************************************************************)
(* Inputs: the instances' prefixes, logical keys, patterns and values.     *)
(***************************************************************************)
\* Cache instances on the same store, identified by their Prefix.  One prefix is
\* a string-prefix of another, and one contains ':'.
Prefixes == {<<"p">>, <<"p", "q">>, <<"p", ":", "q">>}

LogicalKeys == {<<"a">>, <<"a", "b">>, <<"b">>}

\* prefix*, *suffix, prefix*suffix, exact, and the bare star.
Patterns == {<<"a", "*">>, <<"*", "b">>, <<"a", "*", "b">>, <<"a">>, <<"*">>}

\* Values a caller stores.  BadValue stands for a value of a type gob cannot
\* serialise (a channel, a function): encoder.Encode returns an error for it.
Values == {"v1", "v2"}
BadValue == "chan"
Nil == "<nil>"

\* error kinds returned to the caller
NoErr == "nil"
ErrEncode == "failed to encode value"
ErrDecode == "failed to decode value"
ErrKeyNotFound == "key not found"
ErrNotInDecoded == "key not found in decoded value"
ErrDoesNotExist == "key does not exist"
ErrSetCache == "failed to set cache"
ErrTooManyRetries == "failed to empty keys after retries"
ErrRetrieveTTL == "failed to retrieve TTL"
ErrWire == "connection error"
ErrEmptyKeys == "failed to empty keys"
ErrConflict == "Transaction Conflict. Please retry"
ErrDBClosed == "DB Closed"

\* expires ...time.Duration: no argument, or one duration (in seconds).
NoTTL == <<>>

(***************************************************************************)
(* Key Codec and Value Codec.                                              *)
(***************************************************************************)
\* fmt.Sprintf("%s:%s", Prefix, key)
prefixedKey(prefix, key) == prefix \o <<":">> \o key

\* Variant of encodeValue that serialises every value.
encodeValue_NeverFails(item) ==
    LET ks == SortKeys(DOMAIN item)
    IN  [err  |-> NoErr,
         data |-> <<"gob">> \o [n \in 1..Len(ks) |-> <<ks[n], item[ks[n]]>>]]

\* gob encoding of an EntryCache: the key/value pairs, or the encoder's error
\* when a value is of a type gob cannot serialise.
encodeValue(item) ==
    IF \E k \in DOMAIN item : item[k] = BadValue
    THEN [err |-> ErrEncode, data |-> <<>>]
    ELSE LET ks == SortKeys(DOMAIN item)
         IN  [err  |-> NoErr,
              data |-> <<"gob">> \o [n \in 1..Len(ks) |-> <<ks[n], item[ks[n]]>>]]

\* gob decoding into an EntryCache; data that is no gob stream is an error.
decodeValue(data) ==
    IF Len(data) = 0 \/ data[1] # "gob"
    THEN [err |-> ErrDecode, item |-> <<>>]
    ELSE LET pairs == Tail(data)
             keys == {pairs[n][1] : n \in 1..Len(pairs)}
         IN  [err  |-> NoErr,
              item |-> [k \in keys |->
                          pairs[CHOOSE n \in 1..Len(pairs) : pairs[n][1] = k][2]]]

(***************************************************************************)
(* Wildcard Matcher (embedded backend) and the remote store's glob.        *)
(***************************************************************************)
matchWildcard(str, pattern) ==
    LET parts == SplitStar(pattern)
    IN  IF Len(parts) = 1 THEN str = pattern
        ELSE IF ~HasPrefix(str, parts[1]) THEN FALSE
        ELSE IF Len(parts) > 1 /\ parts[2] # <<>> /\ ~HasSuffix(str, parts[2]) THEN FALSE
        ELSE TRUE

\* The remote store's MATCH/KEYS glob, for patterns of literals, '*' (any run
\* of characters) and '?' (any one character).
RECURSIVE GlobMatch(_, _)
GlobMatch(str, pat) ==
    IF pat = <<>> THEN str = <<>>
    ELSE IF Head(pat) = "*"
         THEN \/ GlobMatch(str, Tail(pat))
              \/ (str # <<>> /\ GlobMatch(Tail(str), pat))
    ELSE /\ str # <<>>
         /\ (Head(pat) = "?" \/ Head(str) = Head(pat))
         /\ GlobMatch(Tail(str), Tail(pat))

(***************************************************************************)
(* The backend store.                                                      *)
(***************************************************************************)
\* An entry past its expiry is absent for every read path (0: no expiry).
Expired(e) == e.exp # 0 /\ e.exp <= now

\* The keys that resolve to a live entry of store st.
LiveKeys(st) == {k \in DOMAIN st : ~Expired(st[k])}

\* st with key k bound to entry e
Put(st, k, e) == [x \in (DOMAIN st) \cup {k} |-> IF x = k THEN e ELSE st[x]]

\* st without the keys of D
Remove(st, D) == [x \in (DOMAIN st) \ D |-> st[x]]

\* Room for key k (the model's bound on the store's size).
HasRoom(k) == k \in DOMAIN store \/ Cardinality(DOMAIN store) < MaxLive

\* The call now returning, as `last` records it.  rep counts how many times in a
\* row this same call has been made (1, or 2 for twice or more).
Returned(call, ret) ==
    [op |-> call.op, inst |-> call.inst, key |-> call.key, val |-> call.val,
     n |-> call.n, faults |-> call.faults, args |-> call.args,
     items |-> call.items,
     pre |-> ret.pre, err |-> ret.err, ret |-> ret.ret, keys |-> ret.keys,
     ok |-> ret.ok,
     rep |-> IF /\ last.op = call.op /\ last.inst = call.inst
                /\ last.key = call.key /\ last.val = call.val
                /\ last.n = call.n /\ last.faults = call.faults
                /\ last.args = call.args /\ last.items = call.items
             THEN 2 ELSE 1]

\* A call with no arguments filled in.
NoCall ==
    [op |-> "none", inst |-> <<>>, key |-> <<>>, val |-> Nil, n |-> 0,
     faults |-> <<>>, args |-> <<>>, items |-> {}]

\* An error return: no value, no keys.
Fail(pre, err) == [pre |-> pre, err |-> err, ret |-> Nil, keys |-> <<>>, ok |-> FALSE]

\* A nil-error return of a call that yields nothing else.
Done(pre) == [pre |-> pre, err |-> NoErr, ret |-> Nil, keys |-> <<>>, ok |-> FALSE]

(***************************************************************************)
(* Embedded-store backend: BadgerCache.  Each method's outcome is          *)
(* [store |-> the store it leaves, ret |-> what it returns].               *)
(***************************************************************************)
\* txn.Get: the entry is found iff the key is live.
BadgerFound(fk) == fk \in LiveKeys(store)

\* Variant of DBConn.View that runs the closure on a closed store too.
DBConnView_Open(ret) == ret

\* DBConn.View(fn): what the method makes of fn's run, ret, or ErrDBClosed
\* with fn not run once the store is closed.
DBConnView(ret) == IF closed THEN Fail(FALSE, ErrDBClosed) ELSE ret

\* DBConn.Update(fn): what the method makes of fn's run and commit, out, or
\* ErrDBClosed with nothing written once the store is closed.
DBConnUpdate(out) ==
    IF closed THEN [store |-> store, ret |-> Fail(FALSE, ErrDBClosed)] ELSE out

\* Variant of NewEntry that drops the TTL.
NewEntry_NoTTL(data, expires) == [val |-> data, exp |-> 0]

\* badger.NewEntry(key, data), WithTTL(expires[0]) when a duration is given.
NewEntry(data, expires) ==
    [val |-> data, exp |-> IF Len(expires) > 0 THEN now + expires[1] ELSE 0]

\* Variant of Set that files the value in the entry map under the caller's key
\* instead of the prefixed key (Get looks it up under the prefixed key).
BadgerSet_UnderKeyStr(prefix, keyStr, value, expires) ==
    LET finalPrefixedKey == prefixedKey(prefix, keyStr)
        pre == finalPrefixedKey \in LiveKeys(store)
        enc == encodeValue(keyStr :> value)
    IN  IF enc.err # NoErr
        THEN [store |-> store, ret |-> Fail(pre, ErrEncode)]
        ELSE [store |-> Put(store, finalPrefixedKey,
                            [val |-> enc.data,
                             exp |-> IF Len(expires) > 0 THEN now + expires[1] ELSE 0]),
              ret   |-> Done(pre)]

BadgerSet(prefix, keyStr, value, expires) ==
    LET finalPrefixedKey == prefixedKey(prefix, keyStr)
        pre == BadgerFound(finalPrefixedKey)
        enc == encodeValue(finalPrefixedKey :> value)
    IN  DBConnUpdate(
          IF enc.err # NoErr
          THEN [store |-> store, ret |-> Fail(pre, ErrEncode)]
          ELSE [store |-> Put(store, finalPrefixedKey, NewEntry(enc.data, expires)),
                ret   |-> Done(pre)])

\* SetMultiple: every item is encoded and queued in a write batch, which
\* Flush commits; an encoding error returns before Flush and the deferred
\* Cancel drops what was queued.  items maps logical keys to values.
BadgerSetMultiple(prefix, items, expires) ==
    LET encs == [k \in DOMAIN items |->
                   encodeValue(prefixedKey(prefix, k) :> items[k])]
        new == [fk \in {prefixedKey(prefix, k) : k \in DOMAIN items} |->
                  LET k == CHOOSE x \in DOMAIN items : prefixedKey(prefix, x) = fk
                  IN  NewEntry(encs[k].data, expires)]
    IN  IF \E k \in DOMAIN items : encs[k].err # NoErr
        THEN [store |-> store, ret |-> Fail(FALSE, ErrEncode)]
        ELSE [store |-> new @@ store, ret |-> Done(FALSE)]

\* UpdateMultiple: the same batch as SetMultiple; no key is looked up.
BadgerUpdateMultiple(prefix, items, expires) ==
    LET encs == [k \in DOMAIN items |->
                   encodeValue(prefixedKey(prefix, k) :> items[k])]
        new == [fk \in {prefixedKey(prefix, k) : k \in DOMAIN items} |->
                  LET k == CHOOSE x \in DOMAIN items : prefixedKey(prefix, x) = fk
                  IN  NewEntry(encs[k].data, expires)]
    IN  IF \E k \in DOMAIN items : encs[k].err # NoErr
        THEN [store |-> store, ret |-> Fail(FALSE, ErrEncode)]
        ELSE [store |-> new @@ store, ret |-> Done(FALSE)]

\* Variant of Get that reports a miss as the remote backend does: nil, nil.
BadgerGet_NilOnMiss(prefix, keyStr) ==
    LET fk == prefixedKey(prefix, keyStr)
    IN  IF fk \notin LiveKeys(store) THEN Done(FALSE)
        ELSE LET decoded == decodeValue(store[fk].val)
             IN  IF decoded.err # NoErr THEN Fail(TRUE, ErrDecode)
                 ELSE IF fk \notin DOMAIN decoded.item THEN Fail(TRUE, ErrNotInDecoded)
                 ELSE [pre |-> TRUE, err |-> NoErr, ret |-> decoded.item[fk],
                       keys |-> <<>>, ok |-> FALSE]

BadgerGet(prefix, keyStr) ==
    LET fk == prefixedKey(prefix, keyStr)
    IN  DBConnView(
          IF ~BadgerFound(fk) THEN Fail(FALSE, ErrKeyNotFound)
          ELSE LET decoded == decodeValue(store[fk].val)
               IN  IF decoded.err # NoErr THEN Fail(TRUE, ErrDecode)
                   ELSE IF fk \notin DOMAIN decoded.item
                        THEN Fail(TRUE, ErrNotInDecoded)
                   ELSE [pre |-> TRUE, err |-> NoErr, ret |-> decoded.item[fk],
                         keys |-> <<>>, ok |-> FALSE])

\* Update encodes and calls txn.SetEntry: there is no existence check.
BadgerUpdate(prefix, keyStr, value, expires) ==
    LET fk == prefixedKey(prefix, keyStr)
        pre == BadgerFound(fk)
        encoded == encodeValue(fk :> value)
    IN  IF encoded.err # NoErr
        THEN [store |-> store, ret |-> Fail(pre, ErrEncode)]
        ELSE DBConnUpdate([store |-> Put(store, fk, NewEntry(encoded.data, expires)),
                           ret   |-> Done(pre)])

\* Variant of Exists without the ErrKeyNotFound case: a miss is an error.
BadgerExists_MissIsError(prefix, keyStr) ==
    LET fk == prefixedKey(prefix, keyStr)
    IN  IF fk \in LiveKeys(store)
        THEN [pre |-> TRUE, err |-> NoErr, ret |-> Nil, keys |-> <<>>, ok |-> TRUE]
        ELSE Fail(FALSE, ErrKeyNotFound)

BadgerExists(prefix, keyStr) ==
    LET fk == prefixedKey(prefix, keyStr)
    IN  DBConnView([pre |-> BadgerFound(fk), err |-> NoErr, ret |-> Nil,
                    keys |-> <<>>, ok |-> BadgerFound(fk)])

\* Variant of Delete that looks the key up first and fails when it is absent.
BadgerDelete_MustExist(prefix, keyStr) ==
    LET fk == prefixedKey(prefix, keyStr)
    IN  IF fk \in LiveKeys(store)
        THEN [store |-> Remove(store, {fk}), ret |-> Done(TRUE)]
        ELSE [store |-> store, ret |-> Fail(FALSE, ErrKeyNotFound)]

BadgerDelete(prefix, keyStr) ==
    LET fk == prefixedKey(prefix, keyStr)
    IN  DBConnUpdate([store |-> Remove(store, {fk}), ret |-> Done(BadgerFound(fk))])

\* The first keys of seq until batchSize are collected: append, then break
\* when len(keys) >= batchSize.
RECURSIVE TakeBatch(_, _, _)
TakeBatch(seq, batchSize, got) ==
    IF seq = <<>> THEN got
    ELSE LET keys == Append(got, Head(seq))
         IN  IF Len(keys) >= batchSize THEN keys
             ELSE TakeBatch(Tail(seq), batchSize, keys)

\* The live keys of st with byte-prefix p, in iteration order.
ScanPrefix(st, p) ==
    LET all == SortKeys(LiveKeys(st))
        P(k) == HasPrefix(k, p)
    IN  SelectSeq(all, P)

\* Keys with exact logical keys: each is looked up and kept if it exists.
RECURSIVE BadgerLookup(_, _)
BadgerLookup(prefix, ks) ==
    IF ks = <<>> THEN <<>>
    ELSE LET fk == prefixedKey(prefix, Head(ks))
         IN  (IF BadgerFound(fk) THEN <<fk>> ELSE <<>>) \o BadgerLookup(prefix, Tail(ks))

\* The keys under the prefix whose trimmed name matches the pattern.
BadgerMatching(prefix, pattern) ==
    LET M(key) == matchWildcard(TrimPrefix(key, prefix \o <<":">>), pattern)
    IN  SelectSeq(ScanPrefix(store, prefixedKey(prefix, <<>>)), M)

BadgerKeys(prefix, patternOrKey) ==
    LET keys ==
          IF Len(patternOrKey) = 0 THEN ScanPrefix(store, prefix \o <<":">>)
          ELSE IF Len(patternOrKey) = 1
               THEN IF ContainsStar(patternOrKey[1])
                    THEN BadgerMatching(prefix, patternOrKey[1])
                    ELSE BadgerLookup(prefix, patternOrKey)
          ELSE BadgerLookup(prefix, patternOrKey)
    IN  DBConnView([pre |-> FALSE, err |-> NoErr, ret |-> Nil, keys |-> keys,
                    ok |-> FALSE])

\* The multi-key branch checks the batch size after every key, found or not.
RECURSIVE BadgerLookupBatch(_, _, _, _)
BadgerLookupBatch(prefix, ks, batchSize, got) ==
    IF ks = <<>> THEN got
    ELSE LET fk == prefixedKey(prefix, Head(ks))
             keys == IF BadgerFound(fk) THEN Append(got, fk) ELSE got
         IN  IF Len(keys) >= batchSize THEN keys
             ELSE BadgerLookupBatch(prefix, Tail(ks), batchSize, keys)

BadgerKeysWithBatchSize(prefix, batchSize0, patternOrKey) ==
    LET batchSize == IF batchSize0 = 0 THEN DefaultBatchSize ELSE batchSize0
        keys ==
          IF Len(patternOrKey) = 0
          THEN TakeBatch(ScanPrefix(store, prefix \o <<":">>), batchSize, <<>>)
          ELSE IF Len(patternOrKey) = 1
               THEN IF ContainsStar(patternOrKey[1])
                    THEN TakeBatch(BadgerMatching(prefix, patternOrKey[1]), batchSize, <<>>)
                    ELSE BadgerLookup(prefix, patternOrKey)
          ELSE BadgerLookupBatch(prefix, patternOrKey, batchSize, <<>>)
    IN  DBConnView([pre |-> FALSE, err |-> NoErr, ret |-> Nil, keys |-> keys,
                    ok |-> FALSE])

\* Variant of Expire that does not read the value: the entry is rewritten
\* with an empty one.
BadgerExpire_NoRead(prefix, keyStr, expiration) ==
    LET fk == prefixedKey(prefix, keyStr)
    IN  IF fk \notin LiveKeys(store)
        THEN [store |-> store, ret |-> Fail(FALSE, ErrKeyNotFound)]
        ELSE [store |-> Put(store, fk, [val |-> <<>>, exp |-> now + expiration]),
              ret   |-> Done(TRUE)]

\* Expire reads the entry and rewrites its value with a new TTL; a key that is
\* not found is txn.Get's error and nothing is written.
BadgerExpire(prefix, keyStr, expiration) ==
    LET fk == prefixedKey(prefix, keyStr)
    IN  DBConnUpdate(
          IF ~BadgerFound(fk)
          THEN [store |-> store, ret |-> Fail(FALSE, ErrKeyNotFound)]
          ELSE [store |-> Put(store, fk, NewEntry(store[fk].val, <<expiration>>)),
                ret   |-> Done(TRUE)])

\* RefreshTTL: the same transaction as Expire, under another name.
BadgerRefreshTTL(prefix, keyStr, newTTL) ==
    LET fk == prefixedKey(prefix, keyStr)
    IN  DBConnUpdate(
          IF ~BadgerFound(fk)
          THEN [store |-> store, ret |-> Fail(FALSE, ErrKeyNotFound)]
          ELSE [store |-> Put(store, fk, NewEntry(store[fk].val, <<newTTL>>)),
                ret   |-> Done(TRUE)])

\* TTL: time.Until(ExpiresAt) when ExpiresAt > 0, else 0; the duration is in
\* the ret field.
BadgerTTL(prefix, keyStr) ==
    LET fk == prefixedKey(prefix, keyStr)
    IN  IF DBConnView(Done(FALSE)).err # NoErr \/ ~BadgerFound(fk)
        THEN [pre |-> FALSE, err |-> ErrRetrieveTTL, ret |-> 0, keys |-> <<>>,
              ok |-> FALSE]
        ELSE [pre |-> TRUE, err |-> NoErr,
              ret |-> IF store[fk].exp > 0 THEN store[fk].exp - now ELSE 0,
              keys |-> <<>>, ok |-> FALSE]

(***************************************************************************)
(* Embedded-store backend: batched deletion.                               *)
(***************************************************************************)
\* Variant of DeleteScan with no batch ceiling: the pass runs to the end.
RECURSIVE DeleteScan_NoCeiling(_, _, _, _)
DeleteScan_NoCeiling(seq, pattern, batchSize, deleted) ==
    IF seq = <<>> THEN deleted
    ELSE LET key == Head(seq)
         IN  IF ContainsStar(pattern) /\ ~matchWildcard(key, pattern)
             THEN DeleteScan_NoCeiling(Tail(seq), pattern, batchSize, deleted)
             ELSE DeleteScan_NoCeiling(Tail(seq), pattern, batchSize,
                                       deleted \cup {key})

\* One pass of the iterator over seq: a key that fails the wildcard test is
\* skipped, the others are deleted until batchSize are.
RECURSIVE DeleteScan(_, _, _, _)
DeleteScan(seq, pattern, batchSize, deleted) ==
    IF seq = <<>> THEN deleted
    ELSE LET key == Head(seq)
         IN  IF ContainsStar(pattern) /\ ~matchWildcard(key, pattern)
             THEN DeleteScan(Tail(seq), pattern, batchSize, deleted)
             ELSE LET del == deleted \cup {key}
                  IN  IF Cardinality(del) >= batchSize THEN del
                      ELSE DeleteScan(Tail(seq), pattern, batchSize, del)

\* The keys one transaction deletes from st.
deleteKeysMatchingPattern(st, pattern, batchSize) ==
    LET prefix == SplitStar(pattern)[1]
    IN  DeleteScan(ScanPrefix(st, prefix), pattern, batchSize, {})

\* Variant of the retry loop that allows one attempt more than maxRetries.
RECURSIVE RetryLoop_OneMore(_, _, _, _, _)
RetryLoop_OneMore(pattern, batchSize, maxRetries, retries, faults) ==
    IF retries <= maxRetries
    THEN IF faults # <<>> /\ Head(faults) = "conflict"
         THEN RetryLoop_OneMore(pattern, batchSize, maxRetries, retries + 1,
                                Tail(faults))
         ELSE IF faults # <<>>
              THEN [store |-> store, ret |-> Fail(FALSE, ErrEmptyKeys)]
         ELSE [store |-> Remove(store,
                                deleteKeysMatchingPattern(store, pattern, batchSize)),
               ret   |-> Done(FALSE)]
    ELSE [store |-> store, ret |-> Fail(FALSE, ErrTooManyRetries)]

\* faults: the outcomes of the first transaction attempts ("conflict" for
\* badger.ErrConflict, "error" for any other error); later attempts commit.
\* An attempt that does not commit leaves the store as it was.
RECURSIVE RetryLoop(_, _, _, _, _)
RetryLoop(pattern, batchSize, maxRetries, retries, faults) ==
    IF retries < maxRetries
    THEN IF DBConnUpdate([store |-> store, ret |-> Done(FALSE)]).ret.err # NoErr
         THEN [store |-> store, ret |-> Fail(FALSE, ErrEmptyKeys)]
         ELSE IF faults # <<>> /\ Head(faults) = "conflict"
         THEN RetryLoop(pattern, batchSize, maxRetries, retries + 1, Tail(faults))
         ELSE IF faults # <<>>
              THEN [store |-> store, ret |-> Fail(FALSE, ErrEmptyKeys)]
         ELSE [store |-> Remove(store,
                                deleteKeysMatchingPattern(store, pattern, batchSize)),
               ret   |-> Done(FALSE)]
    ELSE [store |-> store, ret |-> Fail(FALSE, ErrTooManyRetries)]

\* The outer loop ends with an unconditional break: the retry loop runs once.
emptyWithRetries(pattern, batchSize, maxRetries, faults) ==
    RetryLoop(pattern, batchSize, maxRetries, 0, faults)

BadgerEmptyByMatch(prefix, pattern, faults) ==
    LET pre == SplitStar(pattern)[1]
        prefixedPattern == (prefix \o <<":">>) \o pre
    IN  emptyWithRetries(prefixedPattern, EmptyBatchSize, MaxRetries, faults)

BadgerEmpty(prefix, faults) ==
    LET prefixedPattern == prefix \o <<":">>
    IN  emptyWithRetries(prefixedPattern, EmptyBatchSize, MaxRetries, faults)

\* DBConn.DropPrefix([]byte(b.Prefix))
BadgerDropByPrefix(prefix) ==
    [store |-> Remove(store, {k \in DOMAIN store : HasPrefix(k, prefix)}),
     ret   |-> Done(FALSE)]

(***************************************************************************)
(* Embedded-store backend: whole-store operations.                         *)
(***************************************************************************)
\* DBConn.Backup(w, 0): every entry of the store, of every prefix, is written
\* to w with its value and its absolute expiry.  at is the instant of the call.
BadgerBackup(prefix) ==
    [data |-> <<[st |-> store, at |-> now]>>, ret |-> Done(FALSE)]

\* DBConn.DropAll(): the store is left with no entry at all.
BadgerClear(prefix) ==
    [store |-> [k \in {} |-> [val |-> <<>>, exp |-> 0]], ret |-> Done(FALSE)]

\* Variant of Restore that loads only the entries under the instance's prefix.
BadgerRestore_OwnPrefix(prefix, r) ==
    [store |-> IF r = <<>> THEN store
               ELSE LET st == r[1].st
                        own == {k \in DOMAIN st : HasPrefix(k, prefix \o <<":">>)}
                    IN  store @@ [k \in own |-> st[k]],
     ret   |-> Done(FALSE)]

\* DBConn.Load(r, 10000): the entries read from r are written with the
\* versions and expiries they were backed up with; a key the store holds now
\* was written at that version or a later one and keeps its entry.  A reader
\* with nothing left to read loads nothing.
BadgerRestore(prefix, r) ==
    [store |-> IF r = <<>> THEN store ELSE store @@ r[1].st,
     ret   |-> Done(FALSE)]

\* Variant of DeleteMultiple that fails, deleting nothing, when a listed key
\* is absent.
BadgerDeleteMultiple_AbsentIsError(prefix, keys) ==
    LET fks == {prefixedKey(prefix, keys[n]) : n \in 1..Len(keys)}
    IN  IF fks \subseteq LiveKeys(store)
        THEN [store |-> Remove(store, fks), ret |-> Done(TRUE)]
        ELSE [store |-> store, ret |-> Fail(FALSE, ErrKeyNotFound)]

\* DeleteMultiple: a Delete of each listed key is queued in a write batch,
\* which Flush commits; no key is looked up.  pre: every listed key was live.
BadgerDeleteMultiple(prefix, keys) ==
    LET fks == {prefixedKey(prefix, keys[n]) : n \in 1..Len(keys)}
    IN  [store |-> Remove(store, fks), ret |-> Done(fks \subseteq LiveKeys(store))]

\* StreamKeys: the stream walks the keys with byte-prefix Prefix and hands
\* them to Send in buffers; Send returns nil without reading its buffer, so
\* nothing is ever appended to keys, which is returned as it was declared.
BadgerStreamKeys(prefix, batchSize) ==
    LET streamed == ScanPrefix(store, prefix)
        P(k) == FALSE
        keys == SelectSeq(streamed, P)
    IN  [pre |-> FALSE, err |-> NoErr, ret |-> Nil, keys |-> keys, ok |-> FALSE]

\* DBConn.Close(): nil, the first time and every time after it.
BadgerClose(prefix) == [closed |-> TRUE, ret |-> Done(FALSE)]

\* The two sizes DBConn.Size() reports.
Sizes == "lsm, vlog"

\* Size: DBConn.Size() and a nil error, whatever the state of the store.
BadgerSize(prefix) == [Done(FALSE) EXCEPT !.ret = Sizes]

(***************************************************************************)
(* Remote-store backend: RedisCache.                                       *)
(***************************************************************************)
\* EXISTS
RedisFound(fk) == fk \in LiveKeys(store)

\* Variant of Minutes that passes the duration on in seconds.
Minutes_AsSeconds(d) == d

\* int(d.Minutes()) of a duration given in seconds
Minutes(d) == d \div 60

\* Variant of getKeys that matches the pattern as given, with no '*' appended.
getKeys_Exact(pattern) ==
    SortKeys({k \in LiveKeys(store) : GlobMatch(k, pattern)})

\* SCAN ... MATCH pattern+"*", looped until the cursor is 0 again.
getKeys(pattern) ==
    SortKeys({k \in LiveKeys(store) : GlobMatch(k, pattern \o <<"*">>)})

\* SETEX takes its timeout in seconds and refuses one that is not positive.
RedisSet(prefix, keyStr, value, expires) ==
    LET fk == prefixedKey(prefix, keyStr)
        pre == RedisFound(fk)
        enc == encodeValue(fk :> value)
    IN  IF enc.err # NoErr THEN [store |-> store, ret |-> Fail(pre, ErrEncode)]
        ELSE IF Len(expires) > 0
             THEN IF Minutes(expires[1]) <= 0
                  THEN [store |-> store, ret |-> Fail(pre, ErrSetCache)]
                  ELSE [store |-> Put(store, fk, [val |-> enc.data,
                                                  exp |-> now + Minutes(expires[1])]),
                        ret   |-> Done(pre)]
        ELSE [store |-> Put(store, fk, [val |-> enc.data, exp |-> 0]),
              ret   |-> Done(pre)]

\* A miss (redis.ErrNil) is a nil value with a nil error.
RedisGet(prefix, keyStr) ==
    LET fk == prefixedKey(prefix, keyStr)
    IN  IF ~RedisFound(fk)
        THEN [pre |-> FALSE, err |-> NoErr, ret |-> Nil, keys |-> <<>>, ok |-> FALSE]
        ELSE LET result == decodeValue(store[fk].val)
             IN  IF result.err # NoErr THEN Fail(TRUE, ErrDecode)
                 ELSE [pre |-> TRUE, err |-> NoErr,
                       ret |-> IF fk \in DOMAIN result.item
                               THEN result.item[fk] ELSE Nil,
                       keys |-> <<>>, ok |-> FALSE]

RedisExists(prefix, keyStr) ==
    LET fk == prefixedKey(prefix, keyStr)
    IN  [pre |-> RedisFound(fk), err |-> NoErr, ret |-> Nil, keys |-> <<>>,
         ok |-> RedisFound(fk)]

RECURSIVE RedisLookup(_, _)
RedisLookup(prefix, ks) ==
    IF ks = <<>> THEN <<>>
    ELSE LET fk == prefixedKey(prefix, Head(ks))
         IN  (IF RedisFound(fk) THEN <<fk>> ELSE <<>>) \o RedisLookup(prefix, Tail(ks))

RedisKeys(prefix, patternOrKey) ==
    LET keys ==
          IF Len(patternOrKey) = 0 THEN getKeys(prefix \o <<"*">>)
          ELSE IF Len(patternOrKey) = 1
               THEN SortKeys({k \in LiveKeys(store) :
                                GlobMatch(k, prefixedKey(prefix, patternOrKey[1]))})
          ELSE RedisLookup(prefix, patternOrKey)
    IN  [pre |-> FALSE, err |-> NoErr, ret |-> Nil, keys |-> keys, ok |-> FALSE]

RedisDelete(prefix, keyStr) ==
    LET fk == prefixedKey(prefix, keyStr)
    IN  [store |-> Remove(store, {fk}), ret |-> Done(RedisFound(fk))]

\* MULTI, one DEL per collected key, EXEC.
RedisEmptyByMatch(prefix, pattern) ==
    LET keys == getKeys(prefixedKey(prefix, pattern))
    IN  [store |-> Remove(store, Range(keys)), ret |-> Done(FALSE)]

RedisEmpty(prefix) ==
    LET keys == getKeys(prefix \o <<"*">>)
    IN  [store |-> Remove(store, Range(keys)), ret |-> Done(FALSE)]

\* SET drops the key's timeout; EXPIRE with a timeout that is not positive
\* deletes the key.
RedisUpdate(prefix, keyStr, value, expires) ==
    LET fk == prefixedKey(prefix, keyStr)
        exists == RedisFound(fk)
        enc == encodeValue(fk :> value)
    IN  IF ~exists THEN [store |-> store, ret |-> Fail(FALSE, ErrDoesNotExist)]
        ELSE IF enc.err # NoErr THEN [store |-> store, ret |-> Fail(TRUE, ErrEncode)]
        ELSE IF Len(expires) > 0
             THEN IF Minutes(expires[1]) <= 0
                  THEN [store |-> Remove(store, {fk}), ret |-> Done(TRUE)]
                  ELSE [store |-> Put(store, fk, [val |-> enc.data,
                                                  exp |-> now + Minutes(expires[1])]),
                        ret   |-> Done(TRUE)]
        ELSE [store |-> Put(store, fk, [val |-> enc.data, exp |-> 0]),
              ret   |-> Done(TRUE)]

\* EXPIRE key int(d.Minutes()): the reply for a key that does not exist is the
\* integer 0, not an error; a timeout that is not positive deletes the key.
RedisExpire(prefix, keyStr, expiration) ==
    LET fk == prefixedKey(prefix, keyStr)
    IN  IF ~RedisFound(fk) THEN [store |-> store, ret |-> Done(FALSE)]
        ELSE IF Minutes(expiration) <= 0
        THEN [store |-> Remove(store, {fk}), ret |-> Done(TRUE)]
        ELSE [store |-> Put(store, fk, [val |-> store[fk].val,
                                        exp |-> now + Minutes(expiration)]),
              ret   |-> Done(TRUE)]

\* TTL key replies -2 for a key that does not exist, -1 for a key with no
\* timeout, else the seconds left; the reply is multiplied by time.Minute.
RedisTTL(prefix, keyStr) ==
    LET fk == prefixedKey(prefix, keyStr)
        ttl == IF ~RedisFound(fk) THEN -2
               ELSE IF store[fk].exp = 0 THEN -1
               ELSE store[fk].exp - now
    IN  [pre |-> RedisFound(fk), err |-> NoErr, ret |-> ttl * 60, keys |-> <<>>,
         ok |-> FALSE]

\* return nil, nil
RedisKeysWithBatchSize(prefix, batchSize, patternOrKey) ==
    [pre |-> FALSE, err |-> NoErr, ret |-> Nil, keys |-> <<>>, ok |-> FALSE]

(***************************************************************************)
(* The state machine: callers invoke the Cache contract on the instances.  *)
(***************************************************************************)
\* No operation is being followed: pc 0, no connection held.
\*   held, borrowed: connections held now, and borrowed so far (Pool.Get)
\*   keys, todo:     the keys getKeys collected, and those not yet sent a DEL
\*   multi, queued:  a MULTI is open, and the DELs queued under it
\*   gone:           the keys whose DEL has taken effect
\*   exec:           EXEC was sent
\*   val, args:      the value and the expires argument of an Update
\*   found:          the reply to EXISTS
\*   err:            the error the operation is about to return
\*   before:         the key's entry when the operation was entered (<<>>: none)
\*   wrote:          whether SET was sent, and if so whether the key was "live"
\*                   or "absent" at that moment
\* and of an embedded-backend operation followed through its transaction:
\*   before:         the key's entry in the transaction's snapshot (<<>>: none)
\*   reads:          the keys the transaction has read
\*   pending:        the write the transaction holds until it commits
\*   conc:           the keys other callers committed since the snapshot
\*   attempts:       the transactions the operation has opened
\*   done:           the transaction committed
\*   retries:        the retry counter of a batched deletion
NoRun ==
    [op |-> "none", inst |-> <<>>, key |-> <<>>, pc |-> 0, held |-> 0,
     borrowed |-> 0, keys |-> <<>>, todo |-> <<>>, multi |-> FALSE,
     queued |-> <<>>, gone |-> {}, exec |-> FALSE, val |-> Nil, args |-> <<>>,
     found |-> FALSE, err |-> NoErr, before |-> <<>>, wrote |-> "no",
     reads |-> {}, pending |-> <<>>, conc |-> {}, attempts |-> 0, done |-> FALSE,
     retries |-> 0]

EmptyStore == [k \in {} |-> [val |-> <<>>, exp |-> 0]]

Init ==
    /\ backend \in {"badger", "redis"}
    /\ store = EmptyStore
    /\ now = 0
    /\ last = [NoCall EXCEPT !.op = "none"] @@
              [pre |-> FALSE, err |-> NoErr, ret |-> Nil, keys |-> <<>>,
               ok |-> FALSE, rep |-> 0]
    /\ timed = [k \in {} |-> [by |-> "Set", at |-> 0, d |-> 0]]
    /\ run = NoRun
    /\ closed = FALSE
    /\ backup = <<>>

\* The history of timed writes after a call: a successful Set, Expire or RefreshTTL with a
\* duration d is recorded for its key, with the instant of the call; any other
\* successful Set, Update or Delete of the key (a rewrite) clears the record.
\* A batch write does the same for each of its keys.
Timed(call, ret) ==
    LET fk == prefixedKey(call.inst, call.key)
        fks == {prefixedKey(call.inst, kv[1]) : kv \in call.items}
    IN  IF ret.err = NoErr /\ call.op \in {"SetMultiple", "UpdateMultiple"}
        THEN IF Len(call.args) > 0
             THEN [x \in fks |-> [by |-> call.op, at |-> now, d |-> call.args[1]]]
                    @@ timed
             ELSE Remove(timed, fks)
        ELSE IF ret.err # NoErr
           \/ call.op \notin {"Set", "Update", "Expire", "RefreshTTL", "Delete"}
        THEN timed
        ELSE IF call.op \in {"Set", "Expire", "RefreshTTL"} /\ Len(call.args) > 0
        THEN Put(timed, fk, [by |-> call.op, at |-> now, d |-> call.args[1]])
        ELSE Remove(timed, {fk})

\* The embedded store's record of commits: while a followed transaction is
\* open, a write of its key that another caller commits is noted (a Delete
\* commits a tombstone also for a key that is absent).
Committed(call, ret) ==
    IF /\ backend = "badger"
       /\ run.pc > 0
       /\ ret.err = NoErr
       /\ call.op \in {"Set", "Update", "Delete", "Expire", "RefreshTTL"}
       /\ prefixedKey(call.inst, call.key) = prefixedKey(run.inst, run.key)
    THEN [run EXCEPT !.conc = @ \cup {prefixedKey(call.inst, call.key)}]
    ELSE run

\* A mutating call: the store becomes out.store and the call returns out.ret.
Mutate(call, out) ==
    /\ store' = out.store
    /\ last' = Returned(call, out.ret)
    /\ timed' = Timed(call, out.ret)
    /\ run' = Committed(call, out.ret)
    /\ UNCHANGED <<backend, closed, backup, now>>

\* A reading call: only its return is new.
Read(call, ret) ==
    /\ last' = Returned(call, ret)
    /\ UNCHANGED <<backend, closed, backup, store, now, timed, run>>

(***************************************************************************)
(* The Cache interface: a handle dispatches to the backend it is bound to. *)
(***************************************************************************)
CacheSet(prefix, keyStr, value, expires) ==
    IF backend = "badger" THEN BadgerSet(prefix, keyStr, value, expires)
    ELSE RedisSet(prefix, keyStr, value, expires)

CacheUpdate(prefix, keyStr, value, expires) ==
    IF backend = "badger" THEN BadgerUpdate(prefix, keyStr, value, expires)
    ELSE RedisUpdate(prefix, keyStr, value, expires)

CacheDelete(prefix, keyStr) ==
    IF backend = "badger" THEN BadgerDelete(prefix, keyStr)
    ELSE RedisDelete(prefix, keyStr)

CacheGet(prefix, keyStr) ==
    IF backend = "badger" THEN BadgerGet(prefix, keyStr)
    ELSE RedisGet(prefix, keyStr)

CacheExists(prefix, keyStr) ==
    IF backend = "badger" THEN BadgerExists(prefix, keyStr)
    ELSE RedisExists(prefix, keyStr)

CacheKeys(prefix, patternOrKey) ==
    IF backend = "badger" THEN BadgerKeys(prefix, patternOrKey)
    ELSE RedisKeys(prefix, patternOrKey)

CacheKeysWithBatchSize(prefix, batchSize, patternOrKey) ==
    IF backend = "badger" THEN BadgerKeysWithBatchSize(prefix, batchSize, patternOrKey)
    ELSE RedisKeysWithBatchSize(prefix, batchSize, patternOrKey)

CacheExpire(prefix, keyStr, expiration) ==
    IF backend = "badger" THEN BadgerExpire(prefix, keyStr, expiration)
    ELSE RedisExpire(prefix, keyStr, expiration)

CacheTTL(prefix, keyStr) ==
    IF backend = "badger" THEN BadgerTTL(prefix, keyStr)
    ELSE RedisTTL(prefix, keyStr)

\* faults reach only the embedded backend's transactions.
CacheEmpty(prefix, faults) ==
    IF backend = "badger" THEN BadgerEmpty(prefix, faults)
    ELSE RedisEmpty(prefix)

CacheEmptyByMatch(prefix, pattern, faults) ==
    IF backend = "badger" THEN BadgerEmptyByMatch(prefix, pattern, faults)
    ELSE RedisEmptyByMatch(prefix, pattern)

(***************************************************************************)
(* Calls.                                                                  *)
(***************************************************************************)
Set(prefix, keyStr, value, expires) ==
    /\ HasRoom(prefixedKey(prefix, keyStr))
    /\ Mutate([NoCall EXCEPT !.op = "Set", !.inst = prefix, !.key = keyStr,
                             !.val = value, !.args = expires],
              CacheSet(prefix, keyStr, value, expires))

Update(prefix, keyStr, value, expires) ==
    /\ HasRoom(prefixedKey(prefix, keyStr))
    /\ Mutate([NoCall EXCEPT !.op = "Update", !.inst = prefix, !.key = keyStr,
                             !.val = value, !.args = expires],
              CacheUpdate(prefix, keyStr, value, expires))

Delete(prefix, keyStr) ==
    /\ prefix \in Prefixes
    /\ Mutate([NoCall EXCEPT !.op = "Delete", !.inst = prefix, !.key = keyStr],
              CacheDelete(prefix, keyStr))

Get(prefix, keyStr) ==
    /\ prefix \in Prefixes
    /\ Read([NoCall EXCEPT !.op = "Get", !.inst = prefix, !.key = keyStr],
            CacheGet(prefix, keyStr))

Exists(prefix, keyStr) ==
    /\ prefix \in Prefixes
    /\ Read([NoCall EXCEPT !.op = "Exists", !.inst = prefix, !.key = keyStr],
            CacheExists(prefix, keyStr))

Keys(prefix, patternOrKey) ==
    /\ prefix \in Prefixes
    /\ Read([NoCall EXCEPT !.op = "Keys", !.inst = prefix, !.args = patternOrKey],
            CacheKeys(prefix, patternOrKey))

KeysWithBatchSize(prefix, batchSize, patternOrKey) ==
    /\ prefix \in Prefixes
    /\ Read([NoCall EXCEPT !.op = "KeysWithBatchSize", !.inst = prefix,
                           !.n = batchSize, !.args = patternOrKey],
            CacheKeysWithBatchSize(prefix, batchSize, patternOrKey))

Empty(prefix, faults) ==
    /\ backend = "redis" => faults = <<>>
    /\ Mutate([NoCall EXCEPT !.op = "Empty", !.inst = prefix, !.faults = faults],
              CacheEmpty(prefix, faults))

EmptyByMatch(prefix, pattern, faults) ==
    /\ backend = "redis" => faults = <<>>
    /\ Mutate([NoCall EXCEPT !.op = "EmptyByMatch", !.inst = prefix,
                             !.key = pattern, !.faults = faults],
              CacheEmptyByMatch(prefix, pattern, faults))

Expire(prefix, keyStr, expiration) ==
    /\ prefix \in Prefixes
    /\ Mutate([NoCall EXCEPT !.op = "Expire", !.inst = prefix, !.key = keyStr,
                             !.args = <<expiration>>],
              CacheExpire(prefix, keyStr, expiration))

TTL(prefix, keyStr) ==
    /\ prefix \in Prefixes
    /\ Read([NoCall EXCEPT !.op = "TTL", !.inst = prefix, !.key = keyStr],
            CacheTTL(prefix, keyStr))

\* The package's helper, called on its own.
Match(str, pattern) ==
    /\ Len(str) <= MaxStrLen
    /\ Read([NoCall EXCEPT !.op = "matchWildcard", !.key = str, !.args = <<pattern>>],
            [Done(FALSE) EXCEPT !.ok = matchWildcard(str, pattern)])

\* BadgerCache only: not part of the Cache interface.
RefreshTTL(prefix, keyStr, newTTL) ==
    /\ backend = "badger"
    /\ Mutate([NoCall EXCEPT !.op = "RefreshTTL", !.inst = prefix, !.key = keyStr,
                             !.args = <<newTTL>>],
              BadgerRefreshTTL(prefix, keyStr, newTTL))

\* The items of a batch call, as the call record keeps them.
ItemPairs(items) == {<<k, items[k]>> : k \in DOMAIN items}

\* BadgerCache only: not part of the Cache interface.
SetMultiple(prefix, items, expires) ==
    /\ backend = "badger"
    /\ Cardinality(DOMAIN store \cup {prefixedKey(prefix, k) : k \in DOMAIN items})
          <= MaxLive
    /\ Mutate([NoCall EXCEPT !.op = "SetMultiple", !.inst = prefix,
                             !.items = ItemPairs(items), !.args = expires],
              BadgerSetMultiple(prefix, items, expires))

\* BadgerCache only: not part of the Cache interface.
UpdateMultiple(prefix, items, expires) ==
    /\ backend = "badger"
    /\ Cardinality(DOMAIN store \cup {prefixedKey(prefix, k) : k \in DOMAIN items})
          <= MaxLive
    /\ Mutate([NoCall EXCEPT !.op = "UpdateMultiple", !.inst = prefix,
                             !.items = ItemPairs(items), !.args = expires],
              BadgerUpdateMultiple(prefix, items, expires))

\* BadgerCache only.  The writer is the buffer `backup`.
Backup(prefix) ==
    /\ backend = "badger"
    /\ backup' = BadgerBackup(prefix).data
    /\ last' = Returned([NoCall EXCEPT !.op = "Backup", !.inst = prefix],
                        BadgerBackup(prefix).ret)
    /\ UNCHANGED <<backend, closed, store, now, timed, run>>

\* BadgerCache only.
Clear(prefix) ==
    /\ backend = "badger"
    /\ Mutate([NoCall EXCEPT !.op = "Clear", !.inst = prefix], BadgerClear(prefix))

\* BadgerCache only.  The reader is the buffer `backup`, which Load reads to
\* its end.
Restore(prefix) ==
    /\ backend = "badger"
    /\ store' = BadgerRestore(prefix, backup).store
    /\ backup' = <<>>
    /\ last' = Returned([NoCall EXCEPT !.op = "Restore", !.inst = prefix],
                        BadgerRestore(prefix, backup).ret)
    /\ timed' = timed
    /\ UNCHANGED <<backend, closed, now, run>>

\* BadgerCache only.
StreamKeys(prefix, batchSize) ==
    /\ backend = "badger"
    /\ Read([NoCall EXCEPT !.op = "StreamKeys", !.inst = prefix, !.n = batchSize],
            BadgerStreamKeys(prefix, batchSize))

\* BadgerCache only.
DeleteMultiple(prefix, keys) ==
    /\ backend = "badger"
    /\ Mutate([NoCall EXCEPT !.op = "DeleteMultiple", !.inst = prefix, !.args = keys],
              BadgerDeleteMultiple(prefix, keys))

\* BadgerCache only (the Cache interface has no Close).
Close(prefix) ==
    /\ backend = "badger"
    /\ closed' = BadgerClose(prefix).closed
    /\ last' = Returned([NoCall EXCEPT !.op = "Close", !.inst = prefix],
                        BadgerClose(prefix).ret)
    /\ UNCHANGED <<backend, backup, store, now, timed, run>>

\* BadgerCache only.
Size(prefix) ==
    /\ backend = "badger"
    /\ Read([NoCall EXCEPT !.op = "Size", !.inst = prefix], BadgerSize(prefix))

\* BadgerCache only: not part of the Cache interface.
DropByPrefix(prefix) ==
    /\ backend = "badger"
    /\ Mutate([NoCall EXCEPT !.op = "DropByPrefix", !.inst = prefix],
              BadgerDropByPrefix(prefix))

(***************************************************************************)
(* Remote-backend operations, command by command.  Each is the list of     *)
(* pool and wire commands its method issues, in order; "Get" is            *)
(* rc.Conn.Get(), "Close" the deferred conn.Close(), and the three         *)
(* commands of getKeys are its own Get, SCAN and deferred Close.           *)
(***************************************************************************)
\* Variant of EmptyByMatch that never opens the MULTI.
ProgEmptyByMatch_NoMulti == <<"Get", "Get", "SCAN", "Close", "DEL", "EXEC", "Close">>

ProgExists == <<"Get", "EXISTS", "Close">>
ProgKeys == <<"Get", "Get", "SCAN", "Close", "Close">>
ProgEmpty == <<"Get", "Get", "SCAN", "Close", "DEL", "Close">>
ProgEmptyByMatch == <<"Get", "Get", "SCAN", "Close", "MULTI", "DEL", "EXEC", "Close">>
ProgUpdate == <<"Get", "EXISTS", "SET", "EXPIRE", "Close">>

\* The embedded backend's single-key writes: DBConn.Update opens a read-write
\* transaction, runs the closure on it and commits.
ProgTxnExpire == <<"NewTransaction", "txn.Get", "txn.SetEntry", "Commit">>
ProgTxnSet == <<"NewTransaction", "txn.SetEntry", "Commit">>
ProgTxnDelete == <<"NewTransaction", "txn.Delete", "Commit">>

\* Empty and EmptyByMatch: emptyWithRetries, whose retry loop calls
\* DBConn.Update once per turn.
ProgTxnEmpty == <<"DBConn.Update">>

BadgerProgram(op) ==
    CASE op \in {"Expire", "RefreshTTL"} -> ProgTxnExpire
      [] op \in {"Empty", "EmptyByMatch"} -> ProgTxnEmpty
      [] op \in {"Set", "Update"} -> ProgTxnSet
      [] op = "Delete" -> ProgTxnDelete
      [] OTHER -> <<>>

Program(op) ==
    IF backend = "badger" THEN BadgerProgram(op)
    ELSE CASE op = "Exists" -> ProgExists
           [] op = "Update" -> ProgUpdate
           [] op = "Keys" -> ProgKeys
           [] op = "Empty" -> ProgEmpty
           [] op = "EmptyByMatch" -> ProgEmptyByMatch
           [] OTHER -> <<>>

\* Variant of Conflict that detects nothing.
Conflict_Never(r) == FALSE

\* The commit's conflict check: a key the transaction read was committed by
\* another transaction after this one's snapshot was taken.
Conflict(r) == r.reads \cap r.conc # {}

\* Variant of OnConflict that opens a new transaction and runs the closure again.
OnConflict_Retry(r) == [r EXCEPT !.pc = 1, !.reads = {}, !.pending = <<>>]

\* DBConn.Update returns the commit's error and the method returns it.
OnConflict(r) ==
    [r EXCEPT !.pc = Len(BadgerProgram(r.op)) + 1, !.err = ErrConflict,
              !.pending = <<>>]

\* The pattern the operation hands to getKeys.
ScanPattern(r) ==
    IF r.op = "EmptyByMatch" THEN prefixedKey(r.inst, r.key)
    ELSE r.inst \o <<"*">>

\* The command the followed operation is about to issue ("return" after the
\* last one).
Instr ==
    IF run.pc = 0 THEN "idle"
    ELSE IF run.pc > Len(Program(run.op)) THEN "return"
    ELSE Program(run.op)[run.pc]

\* A caller enters an operation of the remote backend.
Begin(op, prefix, keyStr) ==
    /\ backend = "redis"
    /\ run.pc = 0
    /\ run' = [NoRun EXCEPT !.op = op, !.inst = prefix, !.key = keyStr, !.pc = 1]
    /\ UNCHANGED <<backend, closed, backup, store, now, last, timed>>

\* A caller enters Update on the remote backend.
BeginUpdate(prefix, keyStr, value, expires) ==
    /\ backend = "redis"
    /\ run.pc = 0
    /\ LET fk == prefixedKey(prefix, keyStr)
       IN  run' = [NoRun EXCEPT !.op = "Update", !.inst = prefix, !.key = keyStr,
                                !.val = value, !.args = expires, !.pc = 1,
                                !.before = IF RedisFound(fk) THEN <<store[fk]>>
                                           ELSE <<>>]
    /\ UNCHANGED <<backend, closed, backup, store, now, last, timed>>

\* The pattern Empty and EmptyByMatch hand to deleteKeysMatchingPattern.
EmptyPattern(r) ==
    IF r.op = "Empty" THEN r.inst \o <<":">>
    ELSE (r.inst \o <<":">>) \o SplitStar(r.key)[1]

\* Variant of NextRetries that leaves the counter as it is.
NextRetries_Same(retries) == retries

\* retries++
NextRetries(retries) == retries + 1

\* What a turn of the retry loop can meet: a transaction that deletes nothing
\* writes nothing and commits; one that deletes can commit, conflict with a
\* concurrent writer, or fail otherwise; on a closed store DBConn.Update fails.
Outcomes(del) ==
    IF closed THEN {"error"}
    ELSE IF del = {} THEN {"commit"} ELSE {"commit", "conflict", "error"}

\* A caller enters a write of the embedded backend.
BeginTxn(op, prefix, keyStr, value, expires) ==
    /\ backend = "badger"
    /\ run.pc = 0
    /\ run' = [NoRun EXCEPT !.op = op, !.inst = prefix, !.key = keyStr,
                            !.val = value, !.args = expires, !.pc = 1]
    /\ UNCHANGED <<backend, closed, backup, store, now, last, timed>>

\* The operation issues its next command.  DEL stands for the loop over the
\* collected keys: one turn per key; under a MULTI the DEL is only queued.
\* An early return skips to the deferred Close, the last command.
Step ==
    /\ run.pc > 0
    /\ Instr # "return"
    /\ LET next == [run EXCEPT !.pc = run.pc + 1]
           fk == prefixedKey(run.inst, run.key)
           leave(err) == [run EXCEPT !.pc = Len(Program(run.op)), !.err = err]
           abort(err) == [run EXCEPT !.pc = Len(Program(run.op)) + 1, !.err = err,
                                     !.pending = <<>>]
       IN  CASE Instr = "NewTransaction" ->
                  /\ run' = IF run.op = "Update"
                               /\ encodeValue(fk :> run.val).err # NoErr
                            THEN abort(ErrEncode)
                            ELSE IF closed THEN abort(ErrDBClosed)
                            ELSE [next EXCEPT
                                    !.before = IF BadgerFound(fk) THEN <<store[fk]>>
                                               ELSE <<>>,
                                    !.conc = {},
                                    !.attempts = run.attempts + 1]
                  /\ store' = store
             [] Instr = "DBConn.Update" ->
                  LET del == deleteKeysMatchingPattern(store, EmptyPattern(run),
                                                       EmptyBatchSize)
                      tried == [run EXCEPT !.attempts = run.attempts + 1]
                  IN  \E outcome \in Outcomes(del) :
                        (CASE outcome = "commit" ->
                                /\ run' = [tried EXCEPT !.pc = run.pc + 1,
                                                        !.gone = run.gone \cup del,
                                                        !.done = TRUE]
                                /\ store' = Remove(store, del)
                           [] outcome = "conflict" ->
                                /\ run' = IF NextRetries(run.retries) < MaxRetries
                                          THEN [tried EXCEPT
                                                  !.retries = NextRetries(run.retries)]
                                          ELSE [tried EXCEPT
                                                  !.retries = NextRetries(run.retries),
                                                  !.pc = run.pc + 1,
                                                  !.err = ErrTooManyRetries]
                                /\ store' = store
                           [] outcome = "error" ->
                                /\ run' = [tried EXCEPT !.pc = run.pc + 1,
                                                        !.err = ErrEmptyKeys]
                                /\ store' = store)
             [] Instr = "txn.Get" ->
                  /\ run' = IF run.before = <<>> THEN abort(ErrKeyNotFound)
                            ELSE [next EXCEPT !.reads = run.reads \cup {fk}]
                  /\ store' = store
             [] Instr = "txn.SetEntry" ->
                  LET enc == encodeValue(fk :> run.val)
                      data == IF run.op \in {"Expire", "RefreshTTL"}
                              THEN run.before[1].val ELSE enc.data
                  IN  /\ run' = IF run.op = "Set" /\ enc.err # NoErr
                                THEN abort(ErrEncode)
                                ELSE [next EXCEPT
                                        !.pending = <<[del |-> FALSE,
                                                       e |-> NewEntry(data, run.args)]>>]
                      /\ store' = store
             [] Instr = "txn.Delete" ->
                  /\ run' = [next EXCEPT
                                !.pending = <<[del |-> TRUE,
                                               e |-> [val |-> <<>>, exp |-> 0]]>>]
                  /\ store' = store
             [] Instr = "Commit" ->
                  IF Conflict(run)
                  THEN run' = OnConflict(run) /\ store' = store
                  ELSE /\ run' = [next EXCEPT !.pending = <<>>, !.done = TRUE]
                       /\ store' = IF run.pending[1].del THEN Remove(store, {fk})
                                   ELSE Put(store, fk, run.pending[1].e)
             [] Instr = "Get" ->
                  /\ run' = [next EXCEPT !.held = run.held + 1,
                                         !.borrowed = run.borrowed + 1]
                  /\ store' = store
             [] Instr = "Close" ->
                  /\ run' = [next EXCEPT !.held = run.held - 1]
                  /\ store' = store
             [] Instr = "SCAN" ->
                  /\ run' = [next EXCEPT !.keys = getKeys(ScanPattern(run)),
                                         !.todo = getKeys(ScanPattern(run))]
                  /\ store' = store
             [] Instr = "EXISTS" ->
                  /\ run' = IF run.op = "Update" /\ ~RedisFound(fk)
                            THEN leave(ErrDoesNotExist)
                            ELSE [next EXCEPT !.found = RedisFound(fk)]
                  /\ store' = store
             [] Instr = "SET" ->
                  LET enc == encodeValue(fk :> run.val)
                  IN  IF enc.err # NoErr
                      THEN run' = leave(ErrEncode) /\ store' = store
                      ELSE /\ run' = [next EXCEPT
                                        !.wrote = IF RedisFound(fk) THEN "live"
                                                  ELSE "absent"]
                           /\ store' = Put(store, fk, [val |-> enc.data, exp |-> 0])
             [] Instr = "EXPIRE" ->
                  /\ run' = next
                  /\ store' =
                        IF run.args = <<>> \/ ~RedisFound(fk) THEN store
                        ELSE IF Minutes(run.args[1]) <= 0 THEN Remove(store, {fk})
                        ELSE Put(store, fk, [val |-> store[fk].val,
                                             exp |-> now + Minutes(run.args[1])])
             [] Instr = "MULTI" ->
                  /\ run' = [next EXCEPT !.multi = TRUE]
                  /\ store' = store
             [] Instr = "DEL" ->
                  IF run.todo = <<>> THEN run' = next /\ store' = store
                  ELSE IF run.multi
                  THEN /\ run' = [run EXCEPT !.todo = Tail(run.todo),
                                             !.queued = Append(run.queued,
                                                               Head(run.todo))]
                       /\ store' = store
                  ELSE /\ run' = [run EXCEPT !.todo = Tail(run.todo),
                                             !.gone = run.gone \cup {Head(run.todo)}]
                       /\ store' = Remove(store, {Head(run.todo)})
             [] Instr = "EXEC" ->
                  /\ run' = [next EXCEPT !.multi = FALSE, !.exec = TRUE,
                                         !.gone = run.gone \cup Range(run.queued)]
                  /\ store' = Remove(store, Range(run.queued))
    /\ UNCHANGED <<backend, closed, backup, now, last, timed>>

\* The operation returns to its caller.
Return ==
    /\ Instr = "return"
    /\ run' = [run EXCEPT !.pc = 0]
    /\ last' = Returned([NoCall EXCEPT !.op = run.op, !.inst = run.inst,
                                       !.key = run.key, !.val = run.val,
                                       !.args = run.args],
                        [Done(run.before # <<>>) EXCEPT
                            !.err = run.err,
                            !.keys = IF run.op = "Keys" THEN run.keys ELSE <<>>,
                            !.ok = run.op = "Exists" /\ run.found])
    /\ UNCHANGED <<backend, closed, backup, store, now, timed>>

\* A wire command fails: the method returns the error, its deferred Close calls
\* run, and a MULTI that is open is discarded with the connection.
Fault ==
    /\ Instr \in {"SCAN", "EXISTS", "DEL", "EXEC", "SET", "EXPIRE"}
    /\ Instr = "DEL" => run.todo # <<>>
    /\ Instr = "EXPIRE" => run.args # <<>>
    /\ Instr = "SET" => encodeValue(prefixedKey(run.inst, run.key) :> run.val).err = NoErr
    /\ run' = [run EXCEPT !.pc = 0, !.held = 0, !.multi = FALSE, !.queued = <<>>,
                          !.err = ErrWire]
    /\ last' = Returned([NoCall EXCEPT !.op = run.op, !.inst = run.inst,
                                       !.key = run.key, !.val = run.val,
                                       !.args = run.args],
                        Fail(run.before # <<>>, ErrWire))
    /\ UNCHANGED <<backend, closed, backup, store, now, timed>>

\* The clock is read at these instants only (seconds): nothing happens between.
Instants == {0, 1, 60, 61}

Tick ==
    /\ \E t \in Instants : t > now /\ now' = t
    /\ UNCHANGED <<backend, closed, backup, store, last, timed, run>>

(***************************************************************************)
(* Single-key operations: two instances, two keys, every value.            *)
(***************************************************************************)
KVPrefixes == {<<"p">>, <<"p", "q">>}
KVKeys == {<<"a">>, <<"b">>}

\* the one key of the specifications that follow a single key
RaceKeys == {<<"a">>}

Next ==
    \/ \E i \in KVPrefixes, k \in KVKeys, v \in Values \cup {BadValue} :
          \/ Set(i, k, v, NoTTL)
          \/ Update(i, k, v, NoTTL)
    \/ \E i \in KVPrefixes, k \in KVKeys :
          \/ Delete(i, k)
          \/ Get(i, k)
          \/ Exists(i, k)

Spec == Init /\ [][Next]_vars

(***************************************************************************)
(* Listing and bulk deletion: every instance and key, one value.           *)
(***************************************************************************)
\* Outcomes of the first transaction attempts of a batched deletion.
BulkFaults == {<<>>, <<"conflict", "conflict", "conflict">>}
BatchSizes == {0, 1, 2}
KeysArgs == {<<>>}

NextBulk ==
    \/ \E i \in Prefixes, k \in LogicalKeys : Set(i, k, "v1", NoTTL)
    \/ \E i \in Prefixes, a \in KeysArgs : Keys(i, a)
    \/ \E i \in Prefixes, b \in BatchSizes, a \in KeysArgs : KeysWithBatchSize(i, b, a)
    \/ \E i \in Prefixes, f \in BulkFaults : Empty(i, f)
    \/ \E i \in Prefixes, p \in Patterns, f \in BulkFaults : EmptyByMatch(i, p, f)
    \/ \E i \in Prefixes : DropByPrefix(i)

SpecBulk == Init /\ [][NextBulk]_vars

(***************************************************************************)
(* Expiry: one instance, entries written with and without a TTL.           *)
(***************************************************************************)
\* one minute, in seconds
OneMinute == <<60>>

NextTTL ==
    \/ \E k \in KVKeys, e \in {NoTTL, OneMinute} : Set(<<"p">>, k, "v1", e)
    \/ \E k \in KVKeys :
          \/ Delete(<<"p">>, k)
          \/ Get(<<"p">>, k)
          \/ Exists(<<"p">>, k)
    \/ Tick

SpecTTL == Init /\ [][NextTTL]_vars

(***************************************************************************)
(* Time to live: one instance, Set and Expire with durations, TTL.         *)
(***************************************************************************)
\* durations in seconds: one second, one minute, two minutes
Durations == {1, 60, 120}

NextExpiry ==
    \/ \E k \in KVKeys : Set(<<"p">>, k, "v1", NoTTL)
    \/ \E k \in KVKeys, d \in Durations :
          \/ Set(<<"p">>, k, "v1", <<d>>)
          \/ Expire(<<"p">>, k, d)
    \/ \E k \in KVKeys :
          \/ Delete(<<"p">>, k)
          \/ Exists(<<"p">>, k)
          \/ TTL(<<"p">>, k)
    \/ Tick

SpecExpiry == Init /\ [][NextExpiry]_vars

(***************************************************************************)
(* Batched deletion under transaction faults: two instances, three keys.   *)
(***************************************************************************)
\* Outcomes of the first attempts of the round's transaction: up to four
\* conflicts, or another error after zero, one or two conflicts.
RetryFaults ==
    {<<>>, <<"conflict">>, <<"conflict", "conflict">>,
     <<"conflict", "conflict", "conflict">>,
     <<"conflict", "conflict", "conflict", "conflict">>,
     <<"error">>, <<"conflict", "error">>, <<"conflict", "conflict", "error">>}

NextRetry ==
    \/ \E i \in KVPrefixes, k \in LogicalKeys : Set(i, k, "v1", NoTTL)
    \/ \E i \in KVPrefixes, f \in RetryFaults : Empty(i, f)
    \/ \E i \in KVPrefixes, p \in Patterns, f \in RetryFaults : EmptyByMatch(i, p, f)

SpecRetry == Init /\ [][NextRetry]_vars

(***************************************************************************)
(* Listing by exact keys: one instance, one or two named keys.             *)
(***************************************************************************)
\* Logical keys without '*'; one holds a '?'.
ListKeys == {<<"a">>, <<"a", "b">>, <<"a", "?">>}

\* One named key, or two (in either order, or twice the same).
ListArgs == {<<k>> : k \in ListKeys} \cup {<<j, k>> : j, k \in ListKeys}

NextList ==
    \/ \E k \in ListKeys :
          \/ Set(<<"p">>, k, "v1", NoTTL)
          \/ Delete(<<"p">>, k)
    \/ \E a \in ListArgs : Keys(<<"p">>, a)

SpecList == Init /\ [][NextList]_vars

(***************************************************************************)
(* The Wildcard Matcher on its own: every short string and pattern.        *)
(***************************************************************************)
MatchStrs == UNION {[1..n -> {"a", "b"}] : n \in 0..MaxStrLen}
MatchPatterns == UNION {[1..n -> {"a", "b", "*"}] : n \in 0..MaxStrLen}

NextMatch == \E str \in MatchStrs, pattern \in MatchPatterns : Match(str, pattern)

SpecMatch == Init /\ [][NextMatch]_vars

(***************************************************************************)
(* One remote operation followed command by command, with concurrent       *)
(* callers writing and deleting the keys.                                  *)
(***************************************************************************)
\* the patterns EmptyByMatch is followed with: every key, one key
RunPatterns == {<<"*">>, <<"a">>}

NextConn ==
    \/ \E k \in KVKeys :
          \/ Set(<<"p">>, k, "v1", NoTTL)
          \/ Delete(<<"p">>, k)
          \/ Begin("Exists", <<"p">>, k)
    \/ \E op \in {"Keys", "Empty"} : Begin(op, <<"p">>, <<>>)
    \/ \E p \in RunPatterns : Begin("EmptyByMatch", <<"p">>, p)
    \/ Step
    \/ Return
    \/ Fault

SpecConn == Init /\ [][NextConn]_vars


(***************************************************************************)
(* The remote Update followed command by command: one instance, one key    *)
(* the callers contend for, with concurrent Set and Delete calls.          *)
(***************************************************************************)
\* the expires argument of Update: none, one second, one minute
UpdateArgs == {NoTTL, <<1>>, <<60>>}

NextRace ==
    \/ \E k \in RaceKeys, v \in Values : Set(<<"p">>, k, v, NoTTL)
    \/ \E k \in RaceKeys : Delete(<<"p">>, k)
    \/ \E k \in RaceKeys, v \in Values \cup {BadValue}, e \in UpdateArgs :
          BeginUpdate(<<"p">>, k, v, e)
    \/ Step
    \/ Return
    \/ Fault

SpecRace == Init /\ [][NextRace]_vars

(***************************************************************************)
(* Callers one after the other: a call is made only when no operation is   *)
(* under way.  Set, Update and Expire with and without a duration.         *)
(***************************************************************************)
NextSeq ==
    \/ /\ run.pc = 0
       /\ \E k \in RaceKeys, e \in UpdateArgs :
             \/ Set(<<"p">>, k, "v1", e)
             \/ \E v \in {"v2", BadValue} : Update(<<"p">>, k, v, e)
    \/ /\ run.pc = 0
       /\ \E k \in RaceKeys :
             \/ Delete(<<"p">>, k)
             \/ \E e \in UpdateArgs \ {NoTTL} : Expire(<<"p">>, k, e[1])
    \/ \E k \in RaceKeys, v \in {"v2", BadValue}, e \in UpdateArgs :
          BeginUpdate(<<"p">>, k, v, e)
    \/ Step
    \/ Return
    \/ Fault

SpecSeq == Init /\ [][NextSeq]_vars


(***************************************************************************)
(* Deletion by a pattern without a star: one instance, keys of which one   *)
(* is a prefix of another.                                                 *)
(***************************************************************************)
\* patterns without '*': plain names, and one with the glob's '?'
PlainPatterns == {<<"a">>, <<"a", "b">>, <<"b">>, <<"a", "?">>}

NextPrefix ==
    \/ \E k \in LogicalKeys, v \in Values : Set(<<"p">>, k, v, NoTTL)
    \/ \E p \in PlainPatterns : EmptyByMatch(<<"p">>, p, <<>>)

SpecPrefix == Init /\ [][NextPrefix]_vars


(***************************************************************************)
(* Changing the TTL of a key: one instance, a key written with and without *)
(* a TTL beside another key, Expire and RefreshTTL, and time.              *)
(***************************************************************************)
\* the new TTLs, in seconds: one minute, two minutes
NewTTLs == {60, 120}

NextRefresh ==
    \/ \E k \in KVKeys : Set(<<"p">>, k, "v1", NoTTL)
    \/ \E k \in RaceKeys : Set(<<"p">>, k, "v2", OneMinute)
    \/ \E k \in RaceKeys, d \in NewTTLs :
          \/ Expire(<<"p">>, k, d)
          \/ RefreshTTL(<<"p">>, k, d)
    \/ \E k \in RaceKeys : TTL(<<"p">>, k)
    \/ Tick

SpecRefresh == Init /\ [][NextRefresh]_vars


(***************************************************************************)
(* Single-key writes of the embedded backend followed through their        *)
(* transaction, with concurrent Set and Delete calls on the same key.      *)
(***************************************************************************)
NextTxn ==
    \/ \E k \in RaceKeys, v \in Values : Set(<<"p">>, k, v, NoTTL)
    \/ \E k \in RaceKeys : Delete(<<"p">>, k)
    \/ \E k \in RaceKeys, op \in {"Expire", "RefreshTTL"}, d \in NewTTLs :
          BeginTxn(op, <<"p">>, k, Nil, <<d>>)
    \/ \E k \in RaceKeys, op \in {"Set", "Update"} :
          BeginTxn(op, <<"p">>, k, "v1", NoTTL)
    \/ \E k \in RaceKeys : BeginTxn("Delete", <<"p">>, k, Nil, NoTTL)
    \/ Step
    \/ Return

SpecTxn == Init /\ [][NextTxn]_vars


(***************************************************************************)
(* Embedded batched deletion followed attempt by attempt, with concurrent  *)
(* writers; the operation's goroutine keeps being scheduled.               *)
(***************************************************************************)
NextEmptying ==
    \/ \E k \in LogicalKeys : Set(<<"p">>, k, "v1", NoTTL)
    \/ BeginTxn("Empty", <<"p">>, <<>>, Nil, NoTTL)
    \/ \E p \in RunPatterns : BeginTxn("EmptyByMatch", <<"p">>, p, Nil, NoTTL)
    \/ Step
    \/ Return

SpecEmptying == Init /\ [][NextEmptying]_vars /\ WF_vars(Step) /\ WF_vars(Return)


(***************************************************************************)
(* Every writing method, on one instance: the payloads they leave.         *)
(***************************************************************************)
\* The item maps of the batch calls: over one key or both.
BatchItems ==
    UNION {[S -> {"v2", BadValue}] : S \in (SUBSET KVKeys) \ {{}}}

NextEntry ==
    \/ \E k \in KVKeys, v \in {"v1", BadValue} :
          \/ Set(<<"p">>, k, v, NoTTL)
          \/ Update(<<"p">>, k, v, NoTTL)
    \/ \E items \in BatchItems, expires \in {NoTTL, <<60>>} :
          \/ SetMultiple(<<"p">>, items, expires)
          \/ UpdateMultiple(<<"p">>, items, expires)
    \/ \E k \in KVKeys :
          \/ Expire(<<"p">>, k, 60)
          \/ RefreshTTL(<<"p">>, k, 60)

SpecEntry == Init /\ [][NextEntry]_vars


(***************************************************************************)
(* Pattern listing: Keys with one argument that contains '*'.              *)
(***************************************************************************)
\* prefix*, *suffix, prefix*suffix, a prefix and suffix that overlap in the
\* key "a", the bare star, and patterns with two stars.
StarPatterns ==
    {<<"a", "*">>, <<"*", "b">>, <<"a", "*", "b">>, <<"a", "*", "a">>, <<"*">>,
     <<"a", "*", "*">>, <<"*", "a", "*">>, <<"a", "*", "b", "*">>}

NextGlob ==
    \/ \E k \in LogicalKeys : Set(<<"p">>, k, "v1", NoTTL)
    \/ \E k \in LogicalKeys : Delete(<<"p">>, k)
    \/ \E p \in StarPatterns : Keys(<<"p">>, <<p>>)

SpecGlob == Init /\ [][NextGlob]_vars


(***************************************************************************)
(* Set and Update with a value that cannot be encoded, one caller at a     *)
(* time: as whole calls on both backends, and step by step.                *)
(***************************************************************************)
EncodeArgs == {NoTTL, <<60>>}

NextEncode ==
    \/ /\ run.pc = 0
       /\ \E k \in RaceKeys, v \in {"v1", BadValue}, e \in EncodeArgs :
             \/ Set(<<"p">>, k, v, e)
             \/ Update(<<"p">>, k, v, e)
    \/ \E k \in RaceKeys, e \in EncodeArgs : BeginUpdate(<<"p">>, k, BadValue, e)
    \/ \E k \in RaceKeys, op \in {"Set", "Update"}, e \in EncodeArgs :
          BeginTxn(op, <<"p">>, k, BadValue, e)
    \/ Step
    \/ Return

SpecEncode == Init /\ [][NextEncode]_vars


(***************************************************************************)
(* Backup, Clear and Restore by one instance; the store also holds a key   *)
(* of another instance, and time passes.                                   *)
(***************************************************************************)
NextBackup ==
    \/ \E e \in {NoTTL, <<60>>} : Set(<<"p">>, <<"a">>, "v1", e)
    \/ Set(<<"p", "q">>, <<"a">>, "v2", NoTTL)
    \/ Backup(<<"p">>)
    \/ Clear(<<"p">>)
    \/ Restore(<<"p">>)
    \/ Tick

SpecBackup == Init /\ [][NextBackup]_vars


(***************************************************************************)
(* An instance that is used, closed, and used again.                       *)
(***************************************************************************)
NextClose ==
    \/ \E k \in RaceKeys :
          \/ Set(<<"p">>, k, "v1", NoTTL)
          \/ Update(<<"p">>, k, "v2", <<60>>)
          \/ Delete(<<"p">>, k)
          \/ Get(<<"p">>, k)
          \/ Exists(<<"p">>, k)
          \/ Expire(<<"p">>, k, 60)
          \/ RefreshTTL(<<"p">>, k, 60)
          \/ TTL(<<"p">>, k)
    \/ Keys(<<"p">>, <<>>)
    \/ KeysWithBatchSize(<<"p">>, 0, <<>>)
    \/ Empty(<<"p">>, <<>>)
    \/ EmptyByMatch(<<"p">>, <<"a", "*">>, <<>>)
    \/ Close(<<"p">>)
    \/ Size(<<"p">>)

SpecClose == Init /\ [][NextClose]_vars


(***************************************************************************)
(* StreamKeys on an instance that holds none, some or all of three keys.   *)
(***************************************************************************)
StreamSizes == {1, 2, 3}

NextStream ==
    \/ \E k \in LogicalKeys : Set(<<"p">>, k, "v1", NoTTL)
    \/ \E k \in LogicalKeys : Delete(<<"p">>, k)
    \/ \E n \in StreamSizes : StreamKeys(<<"p">>, n)

SpecStream == Init /\ [][NextStream]_vars


(***************************************************************************)
(* DeleteMultiple by one instance; another instance holds a key too.       *)
(***************************************************************************)
\* The lists: empty, one key, two keys, the same key twice.
DeleteLists ==
    {<<>>, <<<<"a">>>>, <<<<"b">>>>, <<<<"a">>, <<"b">>>>, <<<<"a">>, <<"a">>>>}

NextDeleteMultiple ==
    \/ \E k \in LogicalKeys, v \in Values : Set(<<"p">>, k, v, NoTTL)
    \/ \E v \in Values : Set(<<"p", "q">>, <<"a">>, v, NoTTL)
    \/ \E keys \in DeleteLists : DeleteMultiple(<<"p">>, keys)

SpecDeleteMultiple == Init /\ [][NextDeleteMultiple]_vars

(***************************************************************************)
(* Properties.                                                             *)
(***************************************************************************)
\* The namespaced key the last call was about.
LastKey == prefixedKey(last.inst, last.key)

\* The live keys under an instance's prefix.
Under(prefix) == {k \in LiveKeys(store) : HasPrefix(k, prefix \o <<":">>)}

\* The live keys written through the instance itself.
Own(prefix) == {k \in LiveKeys(store) : \E lk \in LogicalKeys : k = prefixedKey(prefix, lk)}

\* Key k was written through an instance other than prefix.
Foreign(k, prefix) ==
    \E other \in Prefixes \ {prefix}, lk \in LogicalKeys : k = prefixedKey(other, lk)

\* C1: Update(k, v) of an encodable value on a key that is absent (never
\* written, or deleted) returns the "key does not exist" error and does not
\* create the key: Exists(k) is false afterwards.
C1_UpdateAbsentFails ==
    (last.op = "Update" /\ ~last.pre /\ last.val \in Values)
        => /\ last.err = ErrDoesNotExist
           /\ ~CacheExists(last.inst, last.key).ok

\* C2: on the embedded backend, with no conflict and no error injected, when
\* Empty or EmptyByMatch returns nil no targeted key remains, also when the
\* targeted keys outnumber the per-round batch ceiling.
C2_Targeted(k) ==
    /\ k \in Own(last.inst)
    /\ last.op = "EmptyByMatch"
          => matchWildcard(TrimPrefix(k, last.inst \o <<":">>), last.key)

C2_EmptyCompletes ==
    (/\ backend = "badger"
     /\ last.op \in {"Empty", "EmptyByMatch"}
     /\ last.faults = <<>>
     /\ last.err = NoErr)
        => \A k \in LiveKeys(store) : ~C2_Targeted(k)

\* C3: on the embedded backend EmptyByMatch(pattern) deletes a key under the
\* prefix if and only if its trimmed name matches the pattern; every key that
\* does not match is still present with its value afterwards.
C3_EmptyByMatchExact ==
    [][(/\ backend = "badger"
        /\ last'.op = "EmptyByMatch"
        /\ last'.err = NoErr
        /\ now' = now)
          => \A k \in Own(last'.inst) :
                LET matches == matchWildcard(TrimPrefix(k, last'.inst \o <<":">>),
                                             last'.key)
                IN  /\ matches <=> k \notin DOMAIN store'
                    /\ ~matches => store'[k] = store[k]]_vars

\* C4: Keys() with no arguments on one instance returns no key written through
\* an instance with a different prefix.
C4_KeysIsolated ==
    (last.op = "Keys" /\ last.args = <<>>)
        => \A n \in 1..Len(last.keys) : ~Foreign(last.keys[n], last.inst)

\* C5: Empty, EmptyByMatch and DropByPrefix on one instance never delete or
\* change a key written through an instance with a different prefix.
C5_BulkDeleteConfined ==
    [][(/\ last'.op \in {"Empty", "EmptyByMatch", "DropByPrefix"}
        /\ now' = now)
          => \A k \in DOMAIN store :
                Foreign(k, last'.inst)
                    => k \in DOMAIN store' /\ store'[k] = store[k]]_vars

\* C10: KeysWithBatchSize(b) with no pattern and b > 0, on a prefix holding
\* more than b live keys, returns exactly b keys, each live under the prefix.
C10_BatchSizeExact ==
    (/\ last.op = "KeysWithBatchSize"
     /\ last.args = <<>>
     /\ last.n > 0
     /\ Cardinality(Own(last.inst)) > last.n)
        => /\ last.err = NoErr
           /\ Len(last.keys) = last.n
           /\ \A n \in 1..Len(last.keys) : last.keys[n] \in Under(last.inst)

\* C6: round trip.  A Set or Update of key k that returns nil makes Get(k)
\* return the value written, with no error; a call that does not write or
\* delete k leaves what Get(k) returns unchanged (so the last successful write
\* wins); and a Get call returns just that.
C6_RoundTrip ==
    [][\A i \in KVPrefixes, k \in KVKeys :
          LET this == last'.inst = i /\ last'.key = k
          IN  IF this /\ last'.op \in {"Set", "Update"}
              THEN last'.err = NoErr
                      => CacheGet(i, k)' = [pre |-> TRUE, err |-> NoErr,
                                            ret |-> last'.val, keys |-> <<>>,
                                            ok |-> FALSE]
              ELSE IF this /\ last'.op = "Delete" THEN TRUE
              ELSE IF this /\ last'.op = "Get"
              THEN /\ last'.err = CacheGet(i, k).err
                   /\ last'.ret = CacheGet(i, k).ret
                   /\ store' = store
              ELSE CacheGet(i, k)' = CacheGet(i, k)]_vars

\* A Get has returned the value of the second write of a key.
C6_Witness ==
    /\ last.op = "Get"
    /\ last.err = NoErr
    /\ last.ret = "v2"
    /\ last.pre

\* C7: Get on an absent key (never written, deleted or expired): the embedded
\* backend returns a non-nil error, the remote backend a nil value and a nil
\* error.
C7_Miss(g) ==
    IF backend = "badger" THEN g.err # NoErr /\ g.ret = Nil
    ELSE g.err = NoErr /\ g.ret = Nil

C7_GetAbsent ==
    /\ \A k \in KVKeys :
          LET fk == prefixedKey(<<"p">>, k)
          IN  (fk \notin DOMAIN store \/ Expired(store[fk]))
                  => C7_Miss(CacheGet(<<"p">>, k))
    /\ (last.op = "Get" /\ ~last.pre) => C7_Miss(last)

\* Get was called on the remote backend for a key whose entry has expired.
C7_Witness ==
    /\ backend = "redis"
    /\ last.op = "Get"
    /\ ~last.pre
    /\ LastKey \in DOMAIN store
    /\ Expired(store[LastKey])

\* C8: after Set and Delete calls on key k (no TTL), Exists(k) is true with no
\* error iff the last of them was a Set: no key exists before any call, a Set
\* that returns nil makes Exists(k) true, a Delete makes it false, a Set or
\* Delete of another key does not change it, and an Exists call returns it.
C8_ExistsStep ==
    \A i \in KVPrefixes, k \in KVKeys :
       LET this == last'.inst = i /\ last'.key = k
           e == CacheExists(i, k)
       IN  /\ (this /\ last'.op = "Set" /\ last'.err = NoErr)
                 => (e'.ok /\ e'.err = NoErr)
           /\ (this /\ last'.op = "Delete")
                 => (last'.err = NoErr /\ ~e'.ok /\ e'.err = NoErr)
           /\ (~this /\ last'.op \in {"Set", "Delete"})
                 => (e'.ok = e.ok /\ e'.err = e.err)
           /\ (this /\ last'.op = "Set" /\ last'.err # NoErr)
                 => (e'.ok = e.ok /\ e'.err = e.err)
           /\ (this /\ last'.op = "Exists")
                 => (last'.ok = e.ok /\ last'.err = NoErr)

C8_ExistsIffLastWasSet ==
    /\ \A i \in KVPrefixes, k \in KVKeys : ~CacheExists(i, k).ok
    /\ [][C8_ExistsStep]_vars

\* Delete was called on a live key, and Exists is false for it now.
C8_Witness ==
    /\ last.op = "Delete"
    /\ last.pre
    /\ ~CacheExists(last.inst, last.key).ok

\* C9: Delete(k) on an absent key returns no error, also when called twice
\* in a row, leaves every other key unchanged and creates nothing.
C9_DeleteIdempotent ==
    [][(/\ last'.op = "Delete"
        /\ prefixedKey(last'.inst, last'.key) \notin LiveKeys(store))
          => /\ last'.err = NoErr
             /\ DOMAIN store' \subseteq DOMAIN store
             /\ prefixedKey(last'.inst, last'.key) \notin LiveKeys(store')
             /\ \A x \in DOMAIN store \ {prefixedKey(last'.inst, last'.key)} :
                   x \in DOMAIN store' /\ store'[x] = store[x]]_vars

\* The same Delete was called twice in a row, the second time on an absent
\* key, while other keys are in the store.
C9_Witness ==
    /\ last.op = "Delete"
    /\ last.rep = 2
    /\ ~last.pre
    /\ last.err = NoErr
    /\ DOMAIN store # {}

\* C11: TTL(k) called at the instant of a successful Set(k, v, d), d a whole
\* number of minutes, returns no error and a duration r with 0 < r <= d.
C11_TTLAfterSet ==
    (/\ last.op = "TTL"
     /\ LastKey \in DOMAIN timed
     /\ timed[LastKey].by = "Set"
     /\ timed[LastKey].at = now
     /\ timed[LastKey].d % 60 = 0)
        => /\ last.err = NoErr
           /\ 0 < last.ret
           /\ last.ret <= timed[LastKey].d

\* TTL was called on the remote backend right after Set(k, v, 2m).
C11_Witness ==
    /\ backend = "redis"
    /\ last.op = "TTL"
    /\ LastKey \in DOMAIN timed
    /\ timed[LastKey] = [by |-> "Set", at |-> now, d |-> 120]
    /\ last.ret = 120

\* The duration d of the last timed write of key fk has elapsed.
Elapsed(fk) == fk \in DOMAIN timed /\ now >= timed[fk].at + timed[fk].d

\* C12: after a successful Set(k, v, d) or Expire(k, d) on a live key, with k
\* not rewritten since, at every time from d after the call on Exists(k) is
\* false with no error, and an Exists call made then returns just that.
C12_ExpiredIsAbsent ==
    /\ [](\A k \in KVKeys :
            Elapsed(prefixedKey(<<"p">>, k))
               => /\ ~CacheExists(<<"p">>, k).ok
                  /\ CacheExists(<<"p">>, k).err = NoErr)
    /\ [][(last'.op = "Exists" /\ now' = now /\ Elapsed(LastKey'))
             => (~last'.ok /\ last'.err = NoErr)]_vars

\* Exists was called on the embedded backend after the one second of a
\* Set(k, v, 1s) had elapsed, the entry still being in the store.
C12_Witness ==
    /\ backend = "badger"
    /\ last.op = "Exists"
    /\ ~last.ok
    /\ Elapsed(LastKey)
    /\ timed[LastKey].by = "Set"
    /\ timed[LastKey].d = 1
    /\ LastKey \in DOMAIN store

\* C13: TTL(k) on a live key with no expiry returns exactly zero and no error.
C13_TTLNoExpiryIsZero ==
    (/\ last.op = "TTL"
     /\ LastKey \in LiveKeys(store)
     /\ store[LastKey].exp = 0)
        => (last.ret = 0 /\ last.err = NoErr)

\* C14: Expire(k, d) on an absent key returns an error and changes nothing.
C14_ExpireAbsentFails ==
    [][(last'.op = "Expire" /\ now' = now /\ ~last'.pre)
          => (last'.err # NoErr /\ store' = store)]_vars

\* The number of conflicts the round meets before any other outcome.
RECURSIVE Conflicts(_)
Conflicts(f) ==
    IF f # <<>> /\ Head(f) = "conflict" THEN 1 + Conflicts(Tail(f)) ELSE 0

\* C15: in embedded batched deletion a conflicting attempt is retried; the
\* operation fails with the too-many-retries error exactly when the round
\* meets 3 conflicts; if an attempt within the ceiling commits the operation
\* returns nil; another error is returned at once, with no further attempt
\* (nothing is deleted).
C15_RetryCeiling ==
    [][(backend = "badger" /\ last'.op \in {"Empty", "EmptyByMatch"})
          => LET f == last'.faults
             IN  /\ last'.err = ErrTooManyRetries <=> Conflicts(f) >= 3
                 /\ (Conflicts(f) < 3 /\ Len(f) = Conflicts(f))
                       => last'.err = NoErr
                 /\ (Conflicts(f) < 3 /\ Len(f) > Conflicts(f))
                       => last'.err = ErrEmptyKeys
                 /\ last'.err # NoErr => store' = store
                 /\ (last'.err = NoErr /\ last'.op = "Empty")
                       => Own(last'.inst) \ DOMAIN store' # {}
                             \/ Own(last'.inst) = {}]_vars

\* Empty met three conflicts and failed, the instance's keys still present.
C15_Witness ==
    /\ backend = "badger"
    /\ last.op = "Empty"
    /\ last.faults = <<"conflict", "conflict", "conflict">>
    /\ last.err = ErrTooManyRetries
    /\ Own(last.inst) # {}

\* C16: Keys() with no arguments returns every live key of the instance: it
\* contains prefix:k for each logical key k for which Exists(k) is true, it
\* contains no key that is absent, deleted or expired, and it is empty right
\* after an Empty() of the instance that returned nil.
C16_KeysAllLive ==
    [][(last'.op = "Keys" /\ last'.args = <<>> /\ now' = now)
          => /\ \A k \in LogicalKeys :
                   CacheExists(last'.inst, k).ok
                      => prefixedKey(last'.inst, k) \in Range(last'.keys)
             /\ \A n \in 1..Len(last'.keys) : last'.keys[n] \in LiveKeys(store)
             /\ (last.op = "Empty" /\ last.inst = last'.inst /\ last.err = NoErr)
                   => last'.keys = <<>>]_vars

\* The namespaced keys of those named keys that exist, in argument order.
RECURSIVE NamedThatExist(_, _)
NamedThatExist(prefix, ks) ==
    IF ks = <<>> THEN <<>>
    ELSE (IF CacheExists(prefix, Head(ks)).ok
          THEN <<prefixedKey(prefix, Head(ks))>> ELSE <<>>)
         \o NamedThatExist(prefix, Tail(ks))

\* C17: Keys(k) with one argument without '*' returns [prefix:k] if k exists
\* and nothing otherwise; Keys(k1, ..., kn), n >= 2, returns exactly the
\* prefix:ki of the ki that exist, in argument order.
C17_KeysNamed ==
    (/\ last.op = "Keys"
     /\ Len(last.args) >= 1
     /\ \A n \in 1..Len(last.args) : ~ContainsStar(last.args[n]))
        => /\ last.err = NoErr
           /\ last.keys = NamedThatExist(last.inst, last.args)

\* The reference glob for a pattern with at most one '*': equality without a
\* star; with pre*suf, s = pre ++ x ++ suf for some x.
RefMatch(str, pattern) ==
    IF ~ContainsStar(pattern) THEN str = pattern
    ELSE LET pre == SplitStar(pattern)[1]
             suf == SplitStar(pattern)[2]
         IN  \E x \in MatchStrs : str = pre \o x \o suf

\* C18: for a pattern with at most one '*' the Wildcard Matcher returns what
\* the reference glob returns.
C18_MatcherIsGlob ==
    (last.op = "matchWildcard" /\ Len(SplitStar(last.args[1])) <= 2)
        => (last.ok <=> RefMatch(last.key, last.args[1]))

\* C19: a remote operation never holds two connections at once, holds none
\* once it has returned (on success and on error), and has borrowed exactly
\* one by then.
C19_OneConnection ==
    /\ run.held <= 1
    /\ (run.op # "none" /\ run.pc = 0) => (run.held = 0 /\ run.borrowed = 1)

\* C20: of the keys the remote EmptyByMatch collected, at every moment either
\* none or all have been deleted by it, and none if its EXEC was not sent.
C20_DeleteGroupAtomic ==
    run.op = "EmptyByMatch"
        => /\ run.gone = {} \/ run.gone = Range(run.keys)
           /\ ~run.exec => run.gone = {}

\* EmptyByMatch collected two keys, queued one DEL, and neither key is gone.
C20_Witness ==
    /\ run.op = "EmptyByMatch"
    /\ Len(run.keys) = 2
    /\ Len(run.queued) = 1
    /\ Range(run.keys) \subseteq LiveKeys(store)

\* C21: on the remote backend Update never sends its write for a key that is
\* absent at that moment: a Delete that took effect after Update's existence
\* check is not undone by Update.
C21_UpdateNeverRecreates ==
    LET fk == prefixedKey(run.inst, run.key)
    IN  (run.op = "Update" /\ run.wrote = "absent")
            => ~(fk \in LiveKeys(store) /\ RedisGet(run.inst, run.key).ret = run.val)

\* C22: an Update(k, v, ttl) that returns an error leaves the value and the
\* expiry of k as they were before the call.
C22_FailedUpdateChangesNothing ==
    [][/\ (last'.op = "Update" /\ last'.err # NoErr /\ run' = run)
             => store' = store
       /\ (run.op = "Update" /\ run.pc > 0 /\ run'.pc = 0 /\ last'.err # NoErr)
             => LET fk == prefixedKey(run.inst, run.key)
                IN  IF run.before = <<>> THEN fk \notin LiveKeys(store')
                    ELSE fk \in DOMAIN store' /\ store'[fk] = run.before[1]]_vars

\* C23: on the remote backend Set(k, v, d), and Update(k, v, d) or Expire(k, d)
\* on a live key, with 0 < d < 1 minute return no error and leave k present
\* with no expiry.
C23_SubMinuteIsNoExpiry ==
    [][(/\ backend = "redis"
        /\ last' # last
        /\ last'.op \in {"Set", "Update", "Expire"}
        /\ last'.val # BadValue
        /\ last'.op # "Set" => last'.pre
        /\ Len(last'.args) > 0
        /\ last'.args[1] > 0
        /\ last'.args[1] < 60)
          => /\ last'.err = NoErr
             /\ LastKey' \in LiveKeys(store')
             /\ store'[LastKey'].exp = 0]_vars

\* What C24 asks of an EmptyByMatch step on the remote backend: no error, every
\* key under the prefix whose logical name begins with the pattern is gone, and
\* every other key under the prefix is present with its value.
C24_DeletesByNamePrefix ==
    /\ last'.err = NoErr
    /\ \A k \in Under(last'.inst) :
          IF HasPrefix(TrimPrefix(k, last'.inst \o <<":">>), last'.key)
          THEN k \notin DOMAIN store'
          ELSE k \in DOMAIN store' /\ store'[k] = store[k]

\* C24 (as stated): on the remote backend EmptyByMatch(p), p without '*',
\* deletes every key under the prefix whose logical name begins with p and
\* leaves every other key under the prefix present.
C24_EmptyByMatchPrefix ==
    [][(/\ backend = "redis"
        /\ last'.op = "EmptyByMatch"
        /\ ~ContainsStar(last'.key))
          => C24_DeletesByNamePrefix]_vars

\* C24 (amended): the same for a pattern p of literal characters, that is
\* with no '*' and none of the glob's other special characters.
C24_EmptyByMatchLiteralPrefix ==
    [][(/\ backend = "redis"
        /\ last'.op = "EmptyByMatch"
        /\ ~ContainsStar(last'.key)
        /\ "?" \notin Range(last'.key))
          => C24_DeletesByNamePrefix]_vars

\* EmptyByMatch("a") on the remote backend has returned nil and of the keys
\* written only "b" is left.
C24_Witness ==
    /\ backend = "redis"
    /\ last.op = "EmptyByMatch"
    /\ last.key = <<"a">>
    /\ last.err = NoErr
    /\ DOMAIN store = {prefixedKey(<<"p">>, <<"b">>)}

\* C25: after a successful Set(k, v, d), with k not deleted or rewritten
\* since, Exists(k) is true with no error at every time strictly before d has
\* elapsed since the Set.
C25_LiveUntilElapsed ==
    \A k \in KVKeys :
       LET fk == prefixedKey(<<"p">>, k)
       IN  (/\ fk \in DOMAIN timed
            /\ timed[fk].by = "Set"
            /\ now < timed[fk].at + timed[fk].d)
               => /\ CacheExists(<<"p">>, k).ok
                  /\ CacheExists(<<"p">>, k).err = NoErr

\* C26: when TTL(k) returns r > 0 at time t, the entry of k (as long as it is
\* not rewritten or deleted) is live at every instant before t + r and absent
\* from t + r on.
C26_TTLIsRemainingLifetime ==
    [][(last'.op = "TTL" /\ now' = now /\ last'.err = NoErr /\ last'.ret > 0)
          => /\ LastKey' \in LiveKeys(store)
             /\ \A t \in Instants :
                   t >= now =>
                      LET e == store[LastKey']
                      IN  (e.exp # 0 /\ e.exp <= t) <=> t >= now + last'.ret
      ]_<<backend, store, now, timed, run, [last EXCEPT !.ret = ToString(@)]>>

C28_NoLostUpdate ==
    [][(/\ backend = "badger"
        /\ run.op \in {"Expire", "RefreshTTL"}
        /\ Instr = "Commit"
        /\ run'.pc # run.pc
        /\ prefixedKey(run.inst, run.key) \in run.conc)
          => /\ store' = store
             /\ run'.err = ErrConflict
             /\ ~run'.done]_vars

\* Expire read v1, a concurrent Set(k, v2) committed, and Expire's commit met
\* the conflict: the key holds v2 with no expiry.
C28_Witness ==
    /\ backend = "badger"
    /\ run.op = "Expire"
    /\ run.pc > 0
    /\ run.err = ErrConflict
    /\ run.before # <<>>
    /\ run.before[1].val = encodeValue(prefixedKey(run.inst, run.key) :> "v1").data
    /\ prefixedKey(run.inst, run.key) \in DOMAIN store
    /\ store[prefixedKey(run.inst, run.key)] =
          [val |-> encodeValue(prefixedKey(run.inst, run.key) :> "v2").data,
           exp |-> 0]

\* C29: a single-key write of the embedded backend opens one transaction at
\* most; when its commit meets a conflict nothing is written, no further
\* transaction is opened, and the call returns the conflict error.
C29_ConflictIsTerminal ==
    /\ [](backend = "badger" => run.attempts <= 1)
    /\ [][(backend = "badger" /\ Instr = "Commit" /\ run'.pc # run.pc
             /\ Conflict(run))
            => (store' = store /\ run'.err = ErrConflict /\ Instr' = "return")]_vars
    /\ [][(backend = "badger" /\ Instr = "return" /\ run'.pc = 0
             /\ run.err = ErrConflict)
            => (/\ last'.op = run.op
                /\ last'.err = ErrConflict
                /\ store' = store
                /\ ~run.done
                /\ run'.attempts = 1)]_vars

\* RefreshTTL has returned the conflict error after its one transaction; the
\* key was deleted by the concurrent caller and is still absent.
C29_Witness ==
    /\ backend = "badger"
    /\ run.op = "RefreshTTL"
    /\ run.pc = 0
    /\ run.attempts = 1
    /\ last.op = "RefreshTTL"
    /\ last.err = ErrConflict
    /\ prefixedKey(run.inst, run.key) \notin DOMAIN store

\* C30: an embedded Empty or EmptyByMatch deletes at most the batch ceiling of
\* keys in its round, deletes nothing when no attempt of the round commits
\* (conflicts up to the retry ceiling, or another error), and so has deleted
\* nothing when it returns an error; every key it does not delete keeps its
\* entry.
C30_RoundAtomicAndBounded ==
    [][(backend = "badger" /\ last'.op \in {"Empty", "EmptyByMatch"})
          => LET gone == DOMAIN store \ DOMAIN store'
                 f == last'.faults
             IN  /\ Cardinality(gone) <= EmptyBatchSize
                 /\ DOMAIN store' \subseteq DOMAIN store
                 /\ \A k \in DOMAIN store' : store'[k] = store[k]
                 /\ (Conflicts(f) >= MaxRetries \/ Conflicts(f) < Len(f))
                       => gone = {}
                 /\ last'.err # NoErr => gone = {}]_vars

\* Empty returned nil after one conflicting attempt and a key of the instance
\* is left: the instance held more keys than the batch ceiling.
C30_Witness ==
    /\ backend = "badger"
    /\ last.op = "Empty"
    /\ last.faults = <<"conflict">>
    /\ last.err = NoErr
    /\ Cardinality(Own(last.inst)) = 1
    /\ Cardinality(DOMAIN store) = 1

\* An embedded batched deletion is under way.
C31_Emptying ==
    backend = "badger" /\ run.op \in {"Empty", "EmptyByMatch"} /\ run.pc > 0

\* C31: an embedded Empty or EmptyByMatch makes at most the retry ceiling of
\* transaction attempts, whatever conflicts concurrent writers cause, and
\* returns; when no key matches at its first attempt it returns nil after
\* that one attempt.
C31_EmptyTerminates ==
    /\ [](run.op \in {"Empty", "EmptyByMatch"} => run.attempts <= MaxRetries)
    /\ [][(/\ C31_Emptying
           /\ Instr = "DBConn.Update"
           /\ run.attempts = 0
           /\ run'.attempts = 1
           /\ deleteKeysMatchingPattern(store, EmptyPattern(run), EmptyBatchSize) = {})
             => (Instr' = "return" /\ run'.err = NoErr /\ run'.attempts = 1
                 /\ store' = store)]_vars
    /\ [][(C31_Emptying /\ Instr = "return" /\ run'.pc = 0)
             => (last'.op = run.op /\ last'.err = run.err)]_vars
    /\ (C31_Emptying ~> run.pc = 0)

\* Empty has returned the too-many-retries error after three conflicting
\* attempts, the instance's keys outnumbering the batch ceiling.
C31_Witness ==
    /\ backend = "badger"
    /\ run.op = "Empty"
    /\ run.pc = 0
    /\ run.attempts = MaxRetries
    /\ last.op = "Empty"
    /\ last.err = ErrTooManyRetries
    /\ Cardinality(Own(<<"p">>)) > EmptyBatchSize

\* C32: on either backend, after any sequence of Set, Update, SetMultiple,
\* UpdateMultiple, Expire and RefreshTTL, the payload stored under every
\* namespaced key decodes to a map with exactly one key, and that key is the
\* namespaced key the payload is stored under.
C32_EntryInvariant ==
    \A fk \in DOMAIN store :
       LET decoded == decodeValue(store[fk].val)
       IN  /\ decoded.err = NoErr
           /\ DOMAIN decoded.item = {fk}

\* Both keys were written, p:b by a batch call (only those store v2), and a
\* RefreshTTL has since rewritten an entry.
C32_Witness ==
    /\ last.op = "RefreshTTL" /\ last.err = NoErr
    /\ DOMAIN store = {prefixedKey(<<"p">>, k) : k \in KVKeys}
    /\ decodeValue(store[prefixedKey(<<"p">>, <<"b">>)].val).item
         = (prefixedKey(<<"p">>, <<"b">>) :> "v2")
    /\ store[prefixedKey(<<"p">>, <<"a">>)].exp # 0

\* C33: for the same prefix, the same live keys and the same single argument
\* containing '*', Keys returns the same set of namespaced keys on the embedded
\* backend and on the remote backend.
C33_KeysSameOnBothBackends ==
    [][(/\ last'.op = "Keys" /\ last'.err = NoErr
        /\ Len(last'.args) = 1 /\ ContainsStar(last'.args[1]))
          => /\ Range(last'.keys) = Range(BadgerKeys(last'.inst, last'.args).keys)
             /\ Range(last'.keys) = Range(RedisKeys(last'.inst, last'.args).keys)]_vars

\* C34: on both backends a Set, or an Update of an existing key, whose value
\* cannot be encoded returns the encoding error and the store is as before:
\* no command or transaction of the call writes, no second transaction is
\* opened, and the key keeps its value and its expiry.
C34_EncodingFailureIsFatal ==
    [][/\ (/\ run.pc = 0 /\ run'.pc = 0
           /\ last'.op \in {"Set", "Update"} /\ last'.val = BadValue
           /\ (last'.op = "Update" /\ backend = "redis") => last'.pre)
             => (last'.err = ErrEncode /\ store' = store)
       /\ (run.pc > 0 /\ run.op \in {"Set", "Update"} /\ run.val = BadValue)
             => store' = store
       /\ (/\ Instr = "return" /\ run'.pc = 0
           /\ run.op \in {"Set", "Update"} /\ run.val = BadValue
           /\ backend = "redis" => run.before # <<>>)
             => /\ last'.err = ErrEncode
                /\ run.attempts <= 1 /\ run.wrote = "no" /\ ~run.done
                /\ run.before # <<>>
                     => LET fk == prefixedKey(run.inst, run.key)
                        IN  fk \in DOMAIN store' /\ store'[fk] = run.before[1]]_vars

\* An Update of a key that holds v1 with an expiry met the encoding error; the
\* key still holds that entry.
C34_Witness ==
    /\ run.op = "Update" /\ run.val = BadValue /\ run.pc > 0
    /\ run.err = ErrEncode /\ run.before # <<>>
    /\ run.before[1].exp # 0
    /\ store[prefixedKey(run.inst, run.key)] = run.before[1]

\* The keys that were live when the backup in the buffer was taken.
C35_LiveAtBackup == {k \in DOMAIN backup[1].st : ~(backup[1].st[k].exp # 0
                                                    /\ backup[1].st[k].exp <= backup[1].at)}

\* C35 as stated: Backup, then Clear (which leaves the whole store empty),
\* then Restore of that backup: every key that was live at Backup time, under
\* any prefix, is live again and Get returns its original value.
C35_RestoreBringsAllBack ==
    [][/\ (last'.op = "Clear" /\ last'.err = NoErr /\ last' # last)
             => DOMAIN store' = {}
       /\ (/\ last.op = "Clear" /\ backup # <<>>
           /\ last'.op = "Restore" /\ last'.err = NoErr)
             => \A i \in KVPrefixes, k \in RaceKeys :
                   prefixedKey(i, k) \in C35_LiveAtBackup
                     => /\ BadgerFound(prefixedKey(i, k))'
                        /\ BadgerGet(i, k)'.err = NoErr
                        /\ BadgerGet(i, k)'.ret
                             = decodeValue(backup[1].st[prefixedKey(i, k)].val)
                                  .item[prefixedKey(i, k)]]_vars

\* C35, amended: the same for every key that was live at Backup time and whose
\* expiry, which the backup carries as an absolute instant, has not passed
\* when Restore returns; such a key also has its original expiry.
C35_RestoreBringsUnexpiredBack ==
    [][/\ (last'.op = "Clear" /\ last'.err = NoErr /\ last' # last)
             => DOMAIN store' = {}
       /\ (/\ last.op = "Clear" /\ backup # <<>>
           /\ last'.op = "Restore" /\ last'.err = NoErr)
             => \A i \in KVPrefixes, k \in RaceKeys :
                   (/\ prefixedKey(i, k) \in C35_LiveAtBackup
                    /\ ~Expired(backup[1].st[prefixedKey(i, k)]))
                     => /\ BadgerFound(prefixedKey(i, k))'
                        /\ store'[prefixedKey(i, k)] = backup[1].st[prefixedKey(i, k)]
                        /\ BadgerGet(i, k)'.err = NoErr
                        /\ BadgerGet(i, k)'.ret
                             = decodeValue(backup[1].st[prefixedKey(i, k)].val)
                                  .item[prefixedKey(i, k)]]_vars

\* Restore has returned after a Clear: both instances' keys are back, one of
\* them with the expiry it was backed up with.
C35_Witness ==
    /\ last.op = "Restore" /\ last.err = NoErr /\ backup = <<>>
    /\ DOMAIN store = {prefixedKey(<<"p">>, <<"a">>), prefixedKey(<<"p", "q">>, <<"a">>)}
    /\ store[prefixedKey(<<"p">>, <<"a">>)].exp = 60
    /\ now = 1
    /\ BadgerGet(<<"p", "q">>, <<"a">>).ret = "v2"

\* The methods that reach the store through DBConn.View or DBConn.Update.
C36_TransactionOps ==
    {"Set", "Update", "Delete", "Get", "Exists", "Expire", "RefreshTTL", "TTL",
     "Keys", "KeysWithBatchSize", "Empty", "EmptyByMatch"}

\* C36 as stated: once Close has returned nil, every later operation on the
\* instance returns a non-nil error and no value, and none changes the store.
C36_ClosedFailsEveryOperation ==
    [][closed => /\ store' = store
                 /\ last'.err # NoErr
                 /\ last'.keys = <<>> /\ ~last'.ok
       ]_<<backend, store, now, timed, run, closed, backup,
           [last EXCEPT !.ret = ToString(@)]>>

\* C36, amended: once Close has returned nil, every later operation that goes
\* through a transaction returns a non-nil error and no value (TTL: the zero
\* duration), and no later operation changes the store.
C36_ClosedIsTerminal ==
    [][closed => /\ store' = store
                 /\ closed'
                 /\ last'.op \in C36_TransactionOps
                      => /\ last'.err # NoErr
                         /\ last'.keys = <<>> /\ ~last'.ok
                         /\ IF last'.op = "TTL" THEN last'.ret = 0
                            ELSE last'.ret = Nil
       ]_<<backend, store, now, timed, run, closed, backup,
           [last EXCEPT !.ret = ToString(@)]>>

\* The instance was closed while it held a live key, and a Get of that key has
\* since returned an error.
C36_Witness ==
    /\ closed /\ last.op = "Get" /\ last.err = ErrDBClosed /\ last.ret = Nil
    /\ prefixedKey(last.inst, last.key) \in LiveKeys(store)

\* C37: StreamKeys(n) on the embedded backend returns no keys when the prefix
\* is empty, and when the prefix holds at least n live keys it returns exactly
\* n namespaced keys that exist under the prefix.
C37_StreamKeysReturnsBatch ==
    [][(last'.op = "StreamKeys" /\ last'.err = NoErr)
          => /\ Own(last'.inst) = {} => last'.keys = <<>>
             /\ Cardinality(Own(last'.inst)) >= last'.n
                  => /\ Len(last'.keys) = last'.n
                     /\ Cardinality(Range(last'.keys)) = last'.n
                     /\ Range(last'.keys) \subseteq Own(last'.inst)]_vars

\* C38: DeleteMultiple(keys) on the embedded backend returns nil, also when a
\* listed key is absent; afterwards Get fails on each listed key, and every
\* other key of the store is present with the entry it had.
C38_DeleteMultipleExact ==
    [][last'.op = "DeleteMultiple"
          => /\ last'.err = NoErr
             /\ \A k \in LogicalKeys :
                   k \in Range(last'.args)
                     => /\ BadgerGet(<<"p">>, k)'.err # NoErr
                        /\ prefixedKey(<<"p">>, k) \notin DOMAIN store'
             /\ \A fk \in DOMAIN store :
                   fk \notin {prefixedKey(<<"p">>, k) : k \in Range(last'.args)}
                     => fk \in DOMAIN store' /\ store'[fk] = store[fk]
             /\ last'.inst = <<"p">>]_vars

\* DeleteMultiple(["a", "b"]) has returned nil although one of the two was
\* absent; the instance's third key and the other instance's key are there.
C38_Witness ==
    /\ last.op = "DeleteMultiple" /\ last.err = NoErr /\ ~last.pre
    /\ last.args = <<<<"a">>, <<"b">>>>
    /\ DOMAIN store = {prefixedKey(<<"p">>, <<"a", "b">>),
                       prefixedKey(<<"p", "q">>, <<"a">>)}
    /\ BadgerGet(<<"p">>, <<"a", "b">>).ret = "v2"

====
